---- MODULE Spec2Model ----
(***************************************************************************)
(* Model of the tool execution pipeline of src/tool_executor:              *)
(*   - schema_validator.py   : SchemaValidator (pure functions)            *)
(*   - virtual_env_manager.py: VirtualEnvironmentManager (shared state)    *)
(*   - tool_executor.py      : ToolExecutor.execute_tool (the pipeline)    *)
(*     and the generated launcher script                                   *)
(*   - dependency_parser.py  : DependencyParser                            *)
(*   - github_downloader.py  : GitHubToolDownloader                        *)
(*   - mongodb_connector.py  : get_db_connector                            *)
(*                                                                         *)
(* Python values are tagged tuples:                                        *)
(*   <<"null">>  <<"bool", b>>  <<"int", n>>  <<"float", m, s>> (m/10^s)   *)
(*   <<"str", chars>>  <<"sym", s>> (a string kept whole: type names,      *)
(*   patterns, required names)  <<"list", items>>                          *)
(*   <<"dict", pairs>> with pairs a sequence of <<key, value>> in          *)
(*   insertion order.                                                      *)
(***************************************************************************)
EXTENDS Integers, Sequences, FiniteSets, TLC

\* ---------------------------------------------------------------- bounds
\* longest input string, in characters
MaxStrLen == 2
\* largest magnitude of an input integer
MaxInt == 2
\* number of distinct packages a tool may declare
MaxDeps == 2
\* most parameters of one run_sync
MaxParams == 3

\* ------------------------------------------------------- Python values
PyNone == <<"null">>
VBool(b) == <<"bool", b>>
VInt(n) == <<"int", n>>
VFloat(m, s) == <<"float", m, s>>
VStr(cs) == <<"str", cs>>
VSym(s) == <<"sym", s>>
VList(xs) == <<"list", xs>>
VDict(ps) == <<"dict", ps>>
EmptyDict == VDict(<<>>)

IsNone(v) == v[1] = "null"
IsBool(v) == v[1] = "bool"
\* isinstance(v, int): bool is a subclass of int
IsInt(v) == v[1] \in {"int", "bool"}
IsFloat(v) == v[1] = "float"
IsStr(v) == v[1] \in {"str", "sym"}
IsList(v) == v[1] = "list"
IsDict(v) == v[1] = "dict"
IsNumber(v) == IsInt(v) \/ IsFloat(v)

\* dict operations (insertion ordered)
Keys(d) == [i \in 1..Len(d[2]) |-> d[2][i][1]]
Values(d) == [i \in 1..Len(d[2]) |-> d[2][i][2]]
Has(d, k) == \E i \in 1..Len(d[2]) : d[2][i][1] = k
Get(d, k) == d[2][CHOOSE i \in 1..Len(d[2]) : d[2][i][1] = k][2]
GetOr(d, k, dflt) == IF Has(d, k) THEN Get(d, k) ELSE dflt
Put(d, k, v) ==
    IF Has(d, k)
    THEN VDict([i \in 1..Len(d[2]) |-> IF d[2][i][1] = k THEN <<k, v>> ELSE d[2][i]])
    ELSE VDict(Append(d[2], <<k, v>>))

\* Python truthiness
Truthy(v) ==
    CASE v[1] = "null" -> FALSE
      [] v[1] = "bool" -> v[2]
      [] v[1] = "int" -> v[2] # 0
      [] v[1] = "float" -> v[2] # 0
      [] v[1] = "sym" -> v[2] # ""
      [] OTHER -> Len(v[2]) > 0

\* ------------------------------------------------------------- numbers
RECURSIVE Pow10(_)
Pow10(s) == IF s <= 0 THEN 1 ELSE 10 * Pow10(s - 1)

\* a number as the fraction NumM / 10^NumS
NumM(v) == IF v[1] = "bool" THEN (IF v[2] THEN 1 ELSE 0) ELSE v[2]
NumS(v) == IF v[1] = "float" THEN v[3] ELSE 0
NumLess(a, b) == NumM(a) * Pow10(NumS(b)) < NumM(b) * Pow10(NumS(a))
NumEq(a, b) == NumM(a) * Pow10(NumS(b)) = NumM(b) * Pow10(NumS(a))

\* Python ==, as used by "value in allowed_values"
PyEq(a, b) == IF IsNumber(a) /\ IsNumber(b) THEN NumEq(a, b) ELSE a = b

\* m / 10^s with trailing zeros of the fraction dropped
RECURSIVE NormFloat(_, _)
NormFloat(m, s) ==
    IF s < 0 THEN VFloat(m * Pow10(0 - s), 0)
    ELSE IF s > 0 /\ m % 10 = 0 THEN NormFloat(m \div 10, s - 1)
    ELSE VFloat(m, s)

\* math.floor(x) of a float: rounding toward minus infinity
FloorFloat(v) == v[2] \div Pow10(v[3])

\* int(x) of a float: truncation toward zero
TruncFloat(v) ==
    IF v[2] >= 0 THEN v[2] \div Pow10(v[3]) ELSE 0 - ((0 - v[2]) \div Pow10(v[3]))

\* ------------------------------------------------------------- strings
Digits == <<"0", "1", "2", "3", "4", "5", "6", "7", "8", "9">>
IsDigit(c) == \E i \in 1..10 : Digits[i] = c
DigitVal(c) == (CHOOSE i \in 1..10 : Digits[i] = c) - 1
IsSpace(c) == c \in {" ", "\t", "\n", "\r"}
UpperCase == <<"A","B","C","D","E","F","G","H","I","J","K","L","M",
               "N","O","P","Q","R","S","T","U","V","W","X","Y","Z">>
LowerCase == <<"a","b","c","d","e","f","g","h","i","j","k","l","m",
               "n","o","p","q","r","s","t","u","v","w","x","y","z">>
LowerChar(c) ==
    IF \E i \in 1..26 : UpperCase[i] = c
    THEN LowerCase[CHOOSE i \in 1..26 : UpperCase[i] = c]
    ELSE c
\* str.lower()
Lower(cs) == [i \in 1..Len(cs) |-> LowerChar(cs[i])]
Contains(cs, c) == \E i \in 1..Len(cs) : cs[i] = c

RECURSIVE LStrip(_)
LStrip(cs) == IF cs # <<>> /\ IsSpace(Head(cs)) THEN LStrip(Tail(cs)) ELSE cs
RECURSIVE RStrip(_)
RStrip(cs) ==
    IF cs # <<>> /\ IsSpace(cs[Len(cs)]) THEN RStrip(SubSeq(cs, 1, Len(cs) - 1)) ELSE cs
\* str.strip()
Strip(cs) == RStrip(LStrip(cs))
\* str.lstrip('-')
RECURSIVE LStripMinus(_)
LStripMinus(cs) == IF cs # <<>> /\ Head(cs) = "-" THEN LStripMinus(Tail(cs)) ELSE cs
\* str.isdigit()
IsDigitStr(cs) == cs # <<>> /\ \A i \in 1..Len(cs) : IsDigit(cs[i])

RECURSIVE DigitsVal(_)
DigitsVal(cs) ==
    IF cs = <<>> THEN 0 ELSE 10 * DigitsVal(SubSeq(cs, 1, Len(cs) - 1)) + DigitVal(cs[Len(cs)])

HasSign(t) == t # <<>> /\ Head(t) \in {"-", "+"}
IsNeg(t) == t # <<>> /\ Head(t) = "-"
Unsigned(t) == IF HasSign(t) THEN Tail(t) ELSE t
Signed(neg, n) == IF neg THEN 0 - n ELSE n

\* the built-in int(str): surrounding blanks, one optional sign, digits
PyIntStripped(t) ==
    IF IsDigitStr(Unsigned(t))
    THEN <<"ok", Signed(IsNeg(t), DigitsVal(Unsigned(t)))>>
    ELSE <<"err", "invalid literal for int()">>
PyInt(cs) == PyIntStripped(Strip(cs))

\* position of the first exponent marker, 0 when there is none
ExpPos(cs) ==
    IF \E i \in 1..Len(cs) : cs[i] \in {"e", "E"}
    THEN CHOOSE i \in 1..Len(cs) : cs[i] \in {"e", "E"} /\ \A j \in 1..(i - 1) : cs[j] \notin {"e", "E"}
    ELSE 0
DotPos(cs) ==
    IF Contains(cs, ".")
    THEN CHOOSE i \in 1..Len(cs) : cs[i] = "." /\ \A j \in 1..(i - 1) : cs[j] # "."
    ELSE 0
AllDigits(cs) == \A i \in 1..Len(cs) : IsDigit(cs[i])

Mantissa(u) == IF ExpPos(u) = 0 THEN u ELSE SubSeq(u, 1, ExpPos(u) - 1)
Exponent(u) == IF ExpPos(u) = 0 THEN <<>> ELSE SubSeq(u, ExpPos(u) + 1, Len(u))
IntPart(mant) == IF DotPos(mant) = 0 THEN mant ELSE SubSeq(mant, 1, DotPos(mant) - 1)
FracPart(mant) == IF DotPos(mant) = 0 THEN <<>> ELSE SubSeq(mant, DotPos(mant) + 1, Len(mant))

\* the built-in float(str): [sign] digits [. digits] [e [sign] digits]
PyFloatParts(neg, ipart, fpart, hasexp, expo) ==
    IF /\ AllDigits(ipart) /\ AllDigits(fpart) /\ Len(ipart) + Len(fpart) > 0
       /\ (~hasexp \/ IsDigitStr(Unsigned(expo)))
    THEN <<"ok", NormFloat(Signed(neg, DigitsVal(ipart \o fpart)),
                           Len(fpart) - (IF hasexp THEN Signed(IsNeg(expo), DigitsVal(Unsigned(expo)))
                                         ELSE 0))>>
    ELSE <<"err", "could not convert string to float">>
PyFloatMant(neg, mant, hasexp, expo) ==
    PyFloatParts(neg, IntPart(mant), FracPart(mant), hasexp, expo)
PyFloatUnsigned(neg, u) == PyFloatMant(neg, Mantissa(u), ExpPos(u) # 0, Exponent(u))
PyFloat(cs) == PyFloatUnsigned(IsNeg(Strip(cs)), Unsigned(Strip(cs)))

\* str.split(',')
RECURSIVE SplitComma(_)
SplitComma(cs) ==
    IF ~Contains(cs, ",") THEN <<cs>>
    ELSE LET p == CHOOSE i \in 1..Len(cs) : cs[i] = "," /\ \A j \in 1..(i - 1) : cs[j] # ","
         IN  <<SubSeq(cs, 1, p - 1)>> \o SplitComma(SubSeq(cs, p + 1, Len(cs)))

RECURSIVE NatChars(_)
NatChars(n) == IF n < 10 THEN <<Digits[n + 1]>> ELSE NatChars(n \div 10) \o <<Digits[(n % 10) + 1]>>
IntChars(n) == IF n < 0 THEN <<"-">> \o NatChars(0 - n) ELSE NatChars(n)
RECURSIVE ZeroPad(_, _)
ZeroPad(cs, w) == IF Len(cs) >= w THEN cs ELSE ZeroPad(<<"0">> \o cs, w)
Abs(m) == IF m < 0 THEN 0 - m ELSE m
FloatChars(m, s) ==
    (IF m < 0 THEN <<"-">> ELSE <<>>) \o NatChars(Abs(m) \div Pow10(s)) \o <<".">>
        \o (IF s = 0 THEN <<"0">> ELSE ZeroPad(NatChars(Abs(m) % Pow10(s)), s))

SymChars(s) == <<s>>

\* repr of a string: the quote is ' unless the text holds ' and no "
ReprEscChar(c, quote) ==
    CASE c = "\\" -> <<"\\", "\\">>
      [] c = quote -> <<"\\", quote>>
      [] c = "\n" -> <<"\\", "n">>
      [] c = "\r" -> <<"\\", "r">>
      [] c = "\t" -> <<"\\", "t">>
      [] OTHER -> <<c>>
RECURSIVE ReprEsc(_, _)
ReprEsc(cs, quote) ==
    IF cs = <<>> THEN <<>> ELSE ReprEscChar(cs[1], quote) \o ReprEsc(Tail(cs), quote)
ReprQuoted(cs, quote) == <<quote>> \o ReprEsc(cs, quote) \o <<quote>>
ReprStr(cs) ==
    ReprQuoted(cs, IF Contains(cs, "'") /\ ~Contains(cs, "\"") THEN "\"" ELSE "'")

\* repr(v), and str(v) for everything but strings
RECURSIVE PyRepr(_)
RECURSIVE ReprItems(_)
RECURSIVE ReprPairs(_)
ReprItems(xs) ==
    IF xs = <<>> THEN <<>>
    ELSE PyRepr(xs[1]) \o (IF Len(xs) = 1 THEN <<>> ELSE <<",", " ">> \o ReprItems(Tail(xs)))
ReprPairs(ps) ==
    IF ps = <<>> THEN <<>>
    ELSE <<"'", ps[1][1], "'", ":", " ">> \o PyRepr(ps[1][2])
             \o (IF Len(ps) = 1 THEN <<>> ELSE <<",", " ">> \o ReprPairs(Tail(ps)))
PyRepr(v) ==
    CASE v[1] = "null" -> <<"N", "o", "n", "e">>
      [] v[1] = "bool" -> IF v[2] THEN <<"T", "r", "u", "e">> ELSE <<"F", "a", "l", "s", "e">>
      [] v[1] = "int" -> IntChars(v[2])
      [] v[1] = "float" -> FloatChars(v[2], v[3])
      [] v[1] = "str" -> ReprStr(v[2])
      [] v[1] = "sym" -> <<"'">> \o SymChars(v[2]) \o <<"'">>
      [] v[1] = "list" -> <<"[">> \o ReprItems(v[2]) \o <<"]">>
      [] v[1] = "dict" -> <<"{">> \o ReprPairs(v[2]) \o <<"}">>

\* ------------------------------------------- SchemaValidator: coercion
\* A converter returns <<"ok", value>> or <<"err", text>> (ValueError raised).
Raised(r) == r[1] = "err"

_convert_to_string(value) ==
    IF IsStr(value) THEN <<"ok", value>> ELSE <<"ok", VStr(PyRepr(value))>>

\* int(value) succeeded or raised
IntResult(r) == IF Raised(r) THEN r ELSE <<"ok", VInt(r[2])>>

_convert_to_integer(value) ==
    IF IsInt(value) THEN <<"ok", value>>
    ELSE IF IsFloat(value) THEN <<"ok", VInt(TruncFloat(value))>>
    ELSE IF value[1] = "str"
    THEN IF IsDigitStr(Strip(value[2])) THEN <<"ok", VInt(DigitsVal(Strip(value[2])))>>
         ELSE IF IsDigitStr(LStripMinus(Strip(value[2])))
         THEN IntResult(PyInt(Strip(value[2])))
         ELSE <<"err", "Cannot convert '{value}' to integer">>
    ELSE <<"err", "Cannot convert '{value}' to integer">>

\* "except ValueError" of _convert_to_number
NumberResult(r) == IF Raised(r) THEN <<"err", "Cannot convert '{value}' to number">> ELSE r

_convert_to_number(value) ==
    IF IsNumber(value) THEN <<"ok", value>>
    ELSE IF value[1] = "str"
    THEN NumberResult(IF ~Contains(value[2], ".") /\ ~Contains(Lower(value[2]), "e")
                      THEN IntResult(PyInt(value[2]))
                      ELSE PyFloat(value[2]))
    ELSE <<"err", "Cannot convert '{value}' to number">>

TrueWords == { <<"t","r","u","e">>, <<"1">>, <<"y","e","s">>, <<"o","n">> }
FalseWords == { <<"f","a","l","s","e">>, <<"0">>, <<"n","o">>, <<"o","f","f">> }

_convert_to_boolean(value) ==
    IF IsBool(value) THEN <<"ok", value>>
    ELSE IF value[1] = "str" /\ Strip(Lower(value[2])) \in TrueWords THEN <<"ok", VBool(TRUE)>>
    ELSE IF value[1] = "str" /\ Strip(Lower(value[2])) \in FalseWords THEN <<"ok", VBool(FALSE)>>
    ELSE IF IsInt(value) THEN <<"ok", VBool(value[2] # 0)>>
    ELSE <<"err", "Cannot convert '{value}' to boolean">>

\* json.loads(value) gives a list (or a dict) only for a text holding "[" (or
\* "{"); the input alphabet has neither, so _convert_to_array always falls
\* back to the comma split and _convert_to_object always raises for a string.
RECURSIVE StripDropEmpty(_)
StripDropEmpty(parts) ==
    IF parts = <<>> THEN <<>>
    ELSE IF Strip(Head(parts)) = <<>> THEN StripDropEmpty(Tail(parts))
    ELSE <<VStr(Strip(Head(parts)))>> \o StripDropEmpty(Tail(parts))

_convert_to_array(value) ==
    IF IsList(value) THEN <<"ok", value>>
    ELSE IF value[1] = "str"
    THEN <<"ok", VList(StripDropEmpty(SplitComma(value[2])))>>
    ELSE <<"err", "Cannot convert '{value}' to array">>

_convert_to_object(value) ==
    IF IsDict(value) THEN <<"ok", value>>
    ELSE <<"err", "Cannot convert '{value}' to object">>

\* a validator that leaves every value as it was given
KeepType(value, target_type) == <<"ok", value>>

\* type_converters.get(target_type, _convert_to_string)(value)
_convert_type(value, target_type) ==
    IF IsNone(value) THEN <<"ok", PyNone>>
    ELSE CASE target_type = VSym("string") -> _convert_to_string(value)
           [] target_type = VSym("integer") -> _convert_to_integer(value)
           [] target_type = VSym("number") -> _convert_to_number(value)
           [] target_type = VSym("boolean") -> _convert_to_boolean(value)
           [] target_type = VSym("array") -> _convert_to_array(value)
           [] target_type = VSym("object") -> _convert_to_object(value)
           [] OTHER -> _convert_to_string(value)

\* ---------------------------------------- SchemaValidator: constraints
\* re.match(pattern, chars) for the patterns the schemas of this model use
PatDigits == "^[0-9]+$"
PatLeadDigit == "[0-9]"
_re_match(pattern, cs) ==
    CASE pattern = PatDigits -> IsDigitStr(cs)
      [] pattern = PatLeadDigit -> cs # <<>> /\ IsDigit(Head(cs))
      [] OTHER -> TRUE

\* value in allowed_values
InList(value, xs) == \E i \in 1..Len(xs) : PyEq(value, xs[i])

Fail(result, msg) == [result EXCEPT !.valid = FALSE, !.errors = Append(@, msg)]

\* lines 370-374
CheckEnum(field_name, value, field_schema, result) ==
    IF Has(field_schema, "enum") /\ ~InList(value, Get(field_schema, "enum")[2])
    THEN Fail(result, <<"Field '{field_name}' must be one of: {allowed_values}, got: {value}", field_name>>)
    ELSE result
\* lines 377-381
CheckPattern(field_name, value, field_schema, result) ==
    IF Has(field_schema, "pattern") /\ value[1] = "str"
       /\ ~_re_match(Get(field_schema, "pattern")[2], value[2])
    THEN Fail(result, <<"Field '{field_name}' must match pattern: {pattern}", field_name>>)
    ELSE result
\* lines 384-387
CheckMinimum(field_name, value, field_schema, result) ==
    IF IsNumber(value) /\ Has(field_schema, "minimum") /\ NumLess(value, Get(field_schema, "minimum"))
    THEN Fail(result, <<"Field '{field_name}' must be >= {minimum}", field_name,
                        Get(field_schema, "minimum")>>)
    ELSE result
\* lines 389-391
CheckMaximum(field_name, value, field_schema, result) ==
    IF IsNumber(value) /\ Has(field_schema, "maximum") /\ NumLess(Get(field_schema, "maximum"), value)
    THEN Fail(result, <<"Field '{field_name}' must be <= {maximum}", field_name,
                        Get(field_schema, "maximum")>>)
    ELSE result
\* lines 394-397
CheckMinLength(field_name, value, field_schema, result) ==
    IF value[1] = "str" /\ Has(field_schema, "minLength")
       /\ Len(value[2]) < Get(field_schema, "minLength")[2]
    THEN Fail(result, <<"Field '{field_name}' must be at least {minLength} characters", field_name>>)
    ELSE result
\* lines 399-401
CheckMaxLength(field_name, value, field_schema, result) ==
    IF value[1] = "str" /\ Has(field_schema, "maxLength")
       /\ Len(value[2]) > Get(field_schema, "maxLength")[2]
    THEN Fail(result, <<"Field '{field_name}' must be at most {maxLength} characters", field_name>>)
    ELSE result
\* lines 404-407
CheckMinItems(field_name, value, field_schema, result) ==
    IF IsList(value) /\ Has(field_schema, "minItems")
       /\ Len(value[2]) < Get(field_schema, "minItems")[2]
    THEN Fail(result, <<"Field '{field_name}' must have at least {minItems} items", field_name>>)
    ELSE result
\* lines 409-411
CheckMaxItems(field_name, value, field_schema, result) ==
    IF IsList(value) /\ Has(field_schema, "maxItems")
       /\ Len(value[2]) > Get(field_schema, "maxItems")[2]
    THEN Fail(result, <<"Field '{field_name}' must have at most {maxItems} items", field_name>>)
    ELSE result

\* the checks in the order of the code, each on the result of the one before
_validate_constraints(field_name, value, field_schema, result) ==
    IF IsNone(value) THEN result
    ELSE CheckMaxItems(field_name, value, field_schema,
         CheckMinItems(field_name, value, field_schema,
         CheckMaxLength(field_name, value, field_schema,
         CheckMinLength(field_name, value, field_schema,
         CheckMaximum(field_name, value, field_schema,
         CheckMinimum(field_name, value, field_schema,
         CheckPattern(field_name, value, field_schema,
         CheckEnum(field_name, value, field_schema, result))))))))

\* ---------------------------------------- SchemaValidator: validation
FieldResult(value) == [valid |-> TRUE, value |-> value, errors |-> <<>>, warnings |-> <<>>]
\* "except Exception as e" of _validate_field_recursive
FieldCaught(result, field_path, e) ==
    [result EXCEPT !.valid = FALSE,
                   !.errors = Append(@, <<"Field '{field_path}': {str(e)}", field_path, e>>)]

ObjRaise(e) == [exc |-> TRUE, e |-> e, valid |-> FALSE, data |-> EmptyDict,
                errors |-> <<>>, warnings |-> <<>>]

\* "default" in field_schema
HasDefault(field_schema) ==
    CASE IsDict(field_schema) -> <<"ok", Has(field_schema, "default")>>
      [] field_schema[1] \in {"str", "sym", "list"} -> <<"ok", FALSE>>
      [] OTHER -> <<"err", "argument of type is not iterable">>

RECURSIVE _validate_object_recursive(_, _, _)
RECURSIVE _validate_field_recursive(_, _, _, _)
RECURSIVE UnionLoop(_, _, _, _, _, _, _)
RECURSIVE UnionConverted(_, _, _, _, _, _, _, _)
RECURSIVE UnionChecked(_, _, _, _, _, _, _)
RECURSIVE ArrayLoop(_, _, _, _, _, _)
RECURSIVE ArrayItem(_, _, _, _, _, _, _)
RECURSIVE RequiredLoop(_, _, _, _, _)
RECURSIVE FieldsLoop(_, _, _, _, _)
RECURSIVE FieldDone(_, _, _, _, _, _, _)
RECURSIVE DefaultsLoop(_, _, _)

\* lines 170-198: try each type of the union in turn
UnionLoop(types, i, field_name, value, field_schema, result, conversion_errors) ==
    IF i > Len(types)
    THEN [result EXCEPT !.valid = FALSE,
            !.errors = Append(@, <<"Field '{field_name}': Value '{value}' doesn't match any allowed types {field_type}. Errors: {conversion_errors}",
                                   field_name, conversion_errors>>)]
    ELSE UnionConverted(types, i, field_name, value, field_schema, result, conversion_errors,
                        IF IsNone(value) THEN <<"ok", result.value>> ELSE _convert_type(value, types[i]))

\* lines 172-179 and 191-193: the conversion raised, or the constraints are next
UnionConverted(types, i, field_name, value, field_schema, result, conversion_errors, conv) ==
    IF Raised(conv)
    THEN UnionLoop(types, i + 1, field_name, value, field_schema, result,
                   Append(conversion_errors, <<"Cannot convert to {union_type}: {str(e)}", types[i][2]>>))
    ELSE UnionChecked(types, i, field_name, value, field_schema, conversion_errors,
                      _validate_constraints(field_name, conv[2], Put(field_schema, "type", types[i]),
                                            [result EXCEPT !.value = conv[2]]))

\* a union that gives up at the first branch whose constraints fail
UnionCheckedStops(types, i, field_name, value, field_schema, conversion_errors, result) ==
    IF result.valid
    THEN [result EXCEPT !.warnings =
             Append(@, <<"Field '{field_name}' validated as {union_type}", field_name, types[i][2]>>)]
    ELSE result

\* lines 181-189
UnionChecked(types, i, field_name, value, field_schema, conversion_errors, result) ==
    IF result.valid
    THEN [result EXCEPT !.warnings =
             Append(@, <<"Field '{field_name}' validated as {union_type}", field_name, types[i][2]>>)]
    ELSE UnionLoop(types, i + 1, field_name, value, field_schema,
                   [result EXCEPT !.errors = <<>>, !.valid = TRUE],
                   Append(conversion_errors, <<"Type {union_type} failed constraints: {result['errors']}", types[i][2]>>))

\* lines 215-226: an array of objects
ArrayLoop(items, i, items_schema, field_path, result, validated_items) ==
    IF i > Len(items)
    THEN IF result.valid THEN [result EXCEPT !.value = VList(validated_items)] ELSE result
    ELSE ArrayItem(items, i, items_schema, field_path, result, validated_items,
                   _validate_object_recursive(items[i], items_schema,
                                              field_path \o "[" \o ToString(i - 1) \o "]"))

\* lines 218-223; an item that raised ends the field at line 240
ArrayItem(items, i, items_schema, field_path, result, validated_items, item_result) ==
    IF item_result.exc THEN FieldCaught(result, field_path, item_result.e)
    ELSE IF item_result.valid
    THEN ArrayLoop(items, i + 1, items_schema, field_path,
                   [result EXCEPT !.warnings = @ \o item_result.warnings],
                   Append(validated_items, item_result.data))
    ELSE ArrayLoop(items, i + 1, items_schema, field_path,
                   [result EXCEPT !.errors = @ \o item_result.errors, !.valid = FALSE],
                   validated_items)

\* lines 205-209
NestedObject(result, field_path, nested_result) ==
    IF nested_result.exc THEN FieldCaught(result, field_path, nested_result.e)
    ELSE [valid |-> nested_result.valid, value |-> nested_result.data,
          errors |-> nested_result.errors, warnings |-> nested_result.warnings]

\* lines 233-238
SimpleField(field_name, field_schema, field_path, result, conv) ==
    IF Raised(conv) THEN FieldCaught(result, field_path, conv[2])
    ELSE _validate_constraints(field_name, conv[2], field_schema, [result EXCEPT !.value = conv[2]])

\* field_schema.get("type", "string")
TypeOf(field_schema) == GetOr(field_schema, "type", VSym("string"))
\* field_schema.get("items", {})
ItemsOf(field_schema) == GetOr(field_schema, "items", EmptyDict)

_validate_field_recursive(field_name, value, field_schema, field_path) ==
    IF ~IsDict(field_schema)
    THEN FieldCaught(FieldResult(value), field_path, "object has no attribute 'get'")
    ELSE IF IsList(TypeOf(field_schema))
    THEN UnionLoop(TypeOf(field_schema)[2], 1, field_name, value, field_schema, FieldResult(value), <<>>)
    ELSE IF TypeOf(field_schema) = VSym("object") /\ IsDict(value)
    THEN NestedObject(FieldResult(value), field_path,
                      _validate_object_recursive(value, field_schema, field_path))
    ELSE IF TypeOf(field_schema) = VSym("array") /\ IsList(value)
    THEN IF ~IsDict(ItemsOf(field_schema))
         THEN FieldCaught(FieldResult(value), field_path, "object has no attribute 'get'")
         ELSE IF Has(ItemsOf(field_schema), "type") /\ Get(ItemsOf(field_schema), "type") = VSym("object")
         THEN ArrayLoop(value[2], 1, ItemsOf(field_schema), field_path, FieldResult(value), <<>>)
         ELSE FieldResult(value)
    ELSE SimpleField(field_name, field_schema, field_path, FieldResult(value),
                     _convert_type(value, TypeOf(field_schema)))

\* lines 117-120
RequiredLoop(required_fields, i, data, path, acc) ==
    IF i > Len(required_fields) THEN acc
    ELSE IF ~Has(data, required_fields[i][2])
    THEN RequiredLoop(required_fields, i + 1, data, path,
            [acc EXCEPT !.valid = FALSE,
                        !.errors = Append(@, <<"Missing required field: '{path}.{field}' if path != 'root' else field",
                                               path, required_fields[i][2]>>)])
    ELSE RequiredLoop(required_fields, i + 1, data, path, acc)

\* line 130
FieldPath(path, field_name) == IF path # "root" THEN path \o "." \o field_name ELSE field_name

\* lines 123-131
FieldsLoop(items, i, properties, path, acc) ==
    IF i > Len(items) THEN acc
    ELSE IF ~Has(properties, items[i][1])
    THEN FieldsLoop(items, i + 1, properties, path,
            [acc EXCEPT !.warnings = Append(@, <<"Unknown field '{path}.{field_name}' - will be passed through", path, items[i][1]>>),
                        !.data = Put(@, items[i][1], items[i][2])])
    ELSE FieldDone(items, i, properties, path,
                   [acc EXCEPT !.bound = TRUE, !.field_path = FieldPath(path, items[i][1])],
                   items[i][1],
                   _validate_field_recursive(items[i][1], items[i][2], Get(properties, items[i][1]),
                                             FieldPath(path, items[i][1])))

\* lines 133-139
FieldDone(items, i, properties, path, acc, field_name, field_result) ==
    IF field_result.valid
    THEN FieldsLoop(items, i + 1, properties, path,
            [acc EXCEPT !.data = Put(@, field_name, field_result.value),
                        !.warnings = @ \o field_result.warnings])
    ELSE FieldsLoop(items, i + 1, properties, path,
            [acc EXCEPT !.errors = @ \o field_result.errors, !.valid = FALSE])

\* lines 142-146; field_path is the loop variable left by lines 123-139
DefaultsLoop(props, i, acc) ==
    IF i > Len(props) THEN acc
    ELSE IF Has(acc.data, props[i][1]) THEN DefaultsLoop(props, i + 1, acc)
    ELSE IF Raised(HasDefault(props[i][2])) THEN [acc EXCEPT !.exc = TRUE, !.e = HasDefault(props[i][2])[2]]
    ELSE IF ~HasDefault(props[i][2])[2] THEN DefaultsLoop(props, i + 1, acc)
    ELSE IF ~acc.bound
    THEN [acc EXCEPT !.exc = TRUE, !.e = "cannot access local variable 'field_path' where it is not associated with a value"]
    ELSE DefaultsLoop(props, i + 1,
            [acc EXCEPT !.data = Put(@, props[i][1], Get(props[i][2], "default")),
                        !.warnings = Append(@, <<"Applied default value for '{field_path}': {default_value}",
                                                 acc.field_path>>)])

\* lines 109-114, with the state of the loop variable field_path
NewObjectResult ==
    [exc |-> FALSE, e |-> "", valid |-> TRUE, data |-> EmptyDict,
     errors |-> <<>>, warnings |-> <<>>, bound |-> FALSE, field_path |-> ""]

\* line 148, or the exception leaving _validate_object_recursive
ObjectReturn(acc) ==
    IF acc.exc THEN ObjRaise(acc.e)
    ELSE [exc |-> FALSE, e |-> "", valid |-> acc.valid, data |-> acc.data,
          errors |-> acc.errors, warnings |-> acc.warnings]

\* schema.get("properties", {}) and schema.get("required", [])
PropertiesOf(schema) == GetOr(schema, "properties", EmptyDict)
RequiredOf(schema) == GetOr(schema, "required", VList(<<>>))

_validate_object_recursive(data, schema, path) ==
    IF ~IsDict(data) /\ ~IsStr(data) /\ ~IsList(data) /\ RequiredOf(schema)[2] # <<>>
    THEN ObjRaise("argument of type is not iterable")
    ELSE IF ~IsDict(data) THEN ObjRaise("object has no attribute 'items'")
    ELSE ObjectReturn(
            DefaultsLoop(PropertiesOf(schema)[2], 1,
                FieldsLoop(data[2], 1, PropertiesOf(schema), path,
                    RequiredLoop(RequiredOf(schema)[2], 1, data, path, NewObjectResult))))

\* any(isinstance(v, dict) and v.get("type") for v in wrapper_value.values())
AnyTypedChild(wrapper_value) ==
    \E i \in 1..Len(wrapper_value[2]) :
        LET v == wrapper_value[2][i][2]
        IN  IsDict(v) /\ Has(v, "type") /\ Truthy(Get(v, "type"))

\* lines 28-35: the single key of a wrapper schema and what it holds
WrapperKey(properties) == properties[2][1][1]
WrapperValue(properties) == properties[2][1][2]
IsWrapper(properties) ==
    /\ Len(properties[2]) = 1
    /\ IsDict(WrapperValue(properties))
    /\ ~(Has(WrapperValue(properties), "type") /\ Truthy(Get(WrapperValue(properties), "type")))
    /\ AnyTypedChild(WrapperValue(properties))

_normalize_schema(input_schema) ==
    IF IsWrapper(PropertiesOf(input_schema))
    THEN VDict(<< <<"type", VSym("object")>>,
                  <<"properties", WrapperValue(PropertiesOf(input_schema))>>,
                  <<"required", GetOr(input_schema, "required", VList(<<>>))>>,
                  <<"_wrapper_key", VSym(WrapperKey(PropertiesOf(input_schema)))>> >>)
    ELSE input_schema

ValidationResult(valid, data, errors, warnings) ==
    [valid |-> valid, data |-> data, errors |-> errors, warnings |-> warnings]

\* normalized_schema.get("_wrapper_key")
WrapperKeyOf(normalized_schema) == GetOr(normalized_schema, "_wrapper_key", PyNone)

\* lines 60-68
ValidationData(user_input, wrapper_key) ==
    IF Truthy(wrapper_key) /\ Has(user_input, wrapper_key[2])
    THEN Get(user_input, wrapper_key[2])
    ELSE user_input

\* a return that hands the data back without its wrapper key
ValidatedUnwrapped(wrapper_key, r) ==
    IF r.exc
    THEN ValidationResult(FALSE, EmptyDict, << <<"Validation error: {str(e)}", r.e>> >>, <<>>)
    ELSE ValidationResult(r.valid, r.data, r.errors, r.warnings)

\* lines 88-101
Validated(wrapper_key, r) ==
    IF r.exc
    THEN ValidationResult(FALSE, EmptyDict, << <<"Validation error: {str(e)}", r.e>> >>, <<>>)
    ELSE IF Truthy(wrapper_key) /\ r.valid
    THEN ValidationResult(TRUE, VDict(<< <<wrapper_key[2], r.data>> >>), r.errors, r.warnings)
    ELSE ValidationResult(r.valid, r.data, r.errors, r.warnings)

\* lines 58-92 on the normalized schema
ValidateNormalized(user_input, normalized_schema) ==
    IF ~Truthy(GetOr(normalized_schema, "properties", PyNone))
    THEN ValidationResult(TRUE, user_input, <<>>, << <<"No properties to validate">> >>)
    ELSE Validated(WrapperKeyOf(normalized_schema),
                   _validate_object_recursive(
                       ValidationData(user_input, WrapperKeyOf(normalized_schema)),
                       normalized_schema, "root"))

validate_input(user_input, input_schema) ==
    ValidateNormalized(user_input, _normalize_schema(input_schema))

\* ------------------------------------------------- validator: inputs
\* the characters input strings are made of: digits, sign, blank, point,
\* a letter (also the exponent marker) and the comma
Chars == {"0", "1", "-", " ", ".", "E", ","}
RECURSIVE StringsOfLen(_)
StringsOfLen(n) ==
    IF n = 0 THEN {<<>>}
    ELSE {<<c>> \o cs : c \in Chars, cs \in StringsOfLen(n - 1)}
Strings == UNION {StringsOfLen(n) : n \in 0..MaxStrLen}

KV(k, v) == <<k, v>>
OneField(k, v) == VDict(<<KV(k, v)>>)

ScalarValues ==
    {VStr(cs) : cs \in Strings} \cup {VInt(n) : n \in (0 - MaxInt)..MaxInt}
        \cup {VBool(TRUE), VBool(FALSE), PyNone, VFloat(15, 1), VFloat(0 - 15, 1)}
ListValues ==
    {VList(<<>>), VList(<<VInt(1)>>), VList(<<VStr(<<"1">>), VStr(<<"0">>)>>),
     VList(<<OneField("x", VInt(1))>>), VList(<<OneField("x", VStr(<<"E">>)), EmptyDict>>)}
DictValues ==
    {EmptyDict, OneField("x", VInt(1)), OneField("x", VStr(<<"1", "0">>)),
     OneField("y", PyNone)}
InputValues == ScalarValues \cup ListValues \cup DictValues
\* the values two-field documents are built from
SmallValues ==
    {VStr(<<"1">>), VStr(<<"1", "0">>), VStr(<<"E">>), VInt(1), VInt(0 - 1), PyNone,
     VList(<<VInt(1)>>)}
FlatDocs ==
    {EmptyDict}
        \cup {OneField(k, v) : k \in {"a", "b"}, v \in InputValues}
        \cup {VDict(<<KV(k[1], v), KV(k[2], u)>>) :
                k \in {<<"a", "b">>, <<"b", "a">>, <<"a", "zz">>}, v \in SmallValues, u \in SmallValues}
\* documents wrapped under the key of the wrapper schema
WrappedDocs ==
    {OneField("w", d) : d \in {EmptyDict, VInt(1)}
        \cup {OneField("a", v) : v \in SmallValues}
        \cup {VDict(<<KV("a", VStr(<<"1">>)), KV("b", v)>>) : v \in SmallValues}}
Documents == FlatDocs \cup WrappedDocs

T(name) == KV("type", VSym(name))
Props(ps) == KV("properties", VDict(ps))
Required(names) == KV("required", VList([i \in 1..Len(names) |-> VSym(names[i])]))

\* the input schemas of the tool descriptors
Schemas == <<
    \* 1: an integer with bounds, required
    VDict(<<Props(<<KV("a", VDict(<<T("integer"), KV("minimum", VInt(0)), KV("maximum", VInt(1))>>))>>),
            Required(<<"a">>)>>),
    \* 2: a bounded string and an integer with a default
    VDict(<<Props(<<KV("a", VDict(<<T("string"), KV("minLength", VInt(1)), KV("maxLength", VInt(1))>>)),
                    KV("b", VDict(<<T("integer"), KV("default", VInt(1))>>))>>)>>),
    \* 3: a union
    VDict(<<Props(<<KV("a", VDict(<<KV("type", VList(<<VSym("integer"), VSym("string")>>))>>))>>)>>),
    \* 4: an array with a bounded length
    VDict(<<Props(<<KV("a", VDict(<<T("array"), KV("minItems", VInt(1)), KV("maxItems", VInt(1))>>))>>)>>),
    \* 5: a nested object
    VDict(<<Props(<<KV("a", VDict(<<T("object"),
                                    Props(<<KV("x", VDict(<<T("integer"), KV("maximum", VInt(1))>>))>>),
                                    Required(<<"x">>)>>))>>),
            Required(<<"a">>)>>),
    \* 6: a wrapper: one typeless key over the real properties
    VDict(<<Props(<<KV("w", VDict(<<KV("a", VDict(<<T("integer"), KV("maximum", VInt(1))>>)),
                                    KV("b", VDict(<<T("string"), KV("default", VStr(<<"1">>))>>))>>))>>),
            Required(<<"a">>)>>),
    \* 7: an array of objects
    VDict(<<Props(<<KV("a", VDict(<<T("array"),
                                    KV("items", VDict(<<T("object"),
                                                        Props(<<KV("x", VDict(<<T("integer")>>))>>),
                                                        Required(<<"x">>)>>))>>))>>)>>),
    \* 8: a string with an enumeration and a pattern
    VDict(<<Props(<<KV("a", VDict(<<T("string"),
                                    KV("enum", VList(<<VStr(<<"1">>), VStr(<<"E">>)>>)),
                                    KV("pattern", VSym(PatDigits))>>))>>)>>),
    \* 9: required fields but no properties
    VDict(<<Required(<<"a">>)>>),
    \* 10: a boolean and a number, both required
    VDict(<<Props(<<KV("a", VDict(<<T("boolean")>>)),
                    KV("b", VDict(<<T("number"), KV("minimum", VInt(0))>>))>>),
            Required(<<"a", "b">>)>>),
    \* 11: a default that lies outside the field's own bounds
    VDict(<<Props(<<KV("a", VDict(<<T("integer"), KV("maximum", VInt(1))>>)),
                    KV("b", VDict(<<T("integer"), KV("maximum", VInt(1)), KV("default", VInt(2))>>))>>)>>),
    \* 12: a union with constraints of both branches
    VDict(<<Props(<<KV("a", VDict(<<KV("type", VList(<<VSym("integer"), VSym("string")>>)),
                                    KV("maximum", VInt(1)), KV("maxLength", VInt(1))>>))>>)>>),
    \* 13: an integer enumeration and a typeless field
    VDict(<<Props(<<KV("a", VDict(<<T("integer"), KV("enum", VList(<<VInt(1), VInt(2)>>))>>)),
                    KV("b", VDict(<<KV("pattern", VSym(PatLeadDigit))>>))>>)>>),
    \* 14: a string, required, with a default
    VDict(<<Props(<<KV("a", VDict(<<T("string"), KV("default", VStr(<<"0">>))>>)),
                    KV("b", VDict(<<T("array"), KV("maxItems", VInt(1))>>))>>),
            Required(<<"a">>)>>)
>>

\* ------------------------------------------------------- launcher: JSON
\* the keys of a dict are written and read as one token
KeyChars(k) == <<k>>
RECURSIVE Cat(_)
Cat(cs) == IF cs = <<>> THEN "" ELSE cs[1] \o Cat(Tail(cs))

\* json.dumps of a string with ensure_ascii=False
JsonEscChar(c) ==
    CASE c = "\"" -> <<"\\", "\"">>
      [] c = "\\" -> <<"\\", "\\">>
      [] c = "\n" -> <<"\\", "n">>
      [] c = "\r" -> <<"\\", "r">>
      [] c = "\t" -> <<"\\", "t">>
      [] OTHER -> <<c>>
RECURSIVE JsonEsc(_)
JsonEsc(cs) == IF cs = <<>> THEN <<>> ELSE JsonEscChar(cs[1]) \o JsonEsc(Tail(cs))
JsonString(cs) == <<"\"">> \o JsonEsc(cs) \o <<"\"">>

\* json.dumps(v, ensure_ascii=False, separators=(item_separator, key_separator))
RECURSIVE json_dumps(_, _, _)
RECURSIVE DumpItems(_, _, _)
RECURSIVE DumpPairs(_, _, _)
DumpItems(xs, item_separator, key_separator) ==
    IF xs = <<>> THEN <<>>
    ELSE json_dumps(xs[1], item_separator, key_separator)
             \o (IF Len(xs) = 1 THEN <<>>
                 ELSE item_separator \o DumpItems(Tail(xs), item_separator, key_separator))
DumpPairs(ps, item_separator, key_separator) ==
    IF ps = <<>> THEN <<>>
    ELSE JsonString(KeyChars(ps[1][1])) \o key_separator
             \o json_dumps(ps[1][2], item_separator, key_separator)
             \o (IF Len(ps) = 1 THEN <<>>
                 ELSE item_separator \o DumpPairs(Tail(ps), item_separator, key_separator))
json_dumps(v, item_separator, key_separator) ==
    CASE v[1] = "null" -> <<"n", "u", "l", "l">>
      [] v[1] = "bool" -> IF v[2] THEN <<"t", "r", "u", "e">> ELSE <<"f", "a", "l", "s", "e">>
      [] v[1] = "int" -> IntChars(v[2])
      [] v[1] = "float" -> FloatChars(v[2], v[3])
      [] v[1] = "str" -> JsonString(v[2])
      [] v[1] = "list" -> <<"[">> \o DumpItems(v[2], item_separator, key_separator) \o <<"]">>
      [] v[1] = "dict" -> <<"{">> \o DumpPairs(v[2], item_separator, key_separator) \o <<"}">>

\* the scanner of json.loads: a result is the value and the index after it
JFail == [ok |-> FALSE, v |-> PyNone, i |-> 0]
JOk(v, i) == [ok |-> TRUE, v |-> v, i |-> i]
\* the character at index i, "" past the end of the text
At(cs, i) == IF i \in 1..Len(cs) THEN cs[i] ELSE ""
StartsWith(cs, i, word) ==
    i + Len(word) - 1 <= Len(cs) /\ SubSeq(cs, i, i + Len(word) - 1) = word
RECURSIVE SkipWs(_, _)
SkipWs(cs, i) == IF IsSpace(At(cs, i)) THEN SkipWs(cs, i + 1) ELSE i
RECURSIVE DigitRun(_, _)
DigitRun(cs, i) == IF IsDigit(At(cs, i)) THEN DigitRun(cs, i + 1) ELSE i

JsonEscapes == {"\"", "\\", "/", "n", "r", "t"}
JsonUnescape(c) ==
    CASE c = "n" -> "\n"
      [] c = "r" -> "\r"
      [] c = "t" -> "\t"
      [] OTHER -> c
\* a string from the index after its opening quote; a raw control
\* character ends the scan with an error (strict mode)
RECURSIVE JString(_, _, _)
JString(cs, i, acc) ==
    IF i > Len(cs) THEN JFail
    ELSE IF cs[i] = "\"" THEN JOk(VStr(acc), i + 1)
    ELSE IF cs[i] = "\\"
    THEN IF At(cs, i + 1) \in JsonEscapes
         THEN JString(cs, i + 2, Append(acc, JsonUnescape(cs[i + 1])))
         ELSE JFail
    ELSE IF cs[i] \in {"\n", "\r", "\t"} THEN JFail
    ELSE JString(cs, i + 1, Append(acc, cs[i]))

\* a number: sign at i, digits from d to e - 1, fraction from e + 1 to f - 1
JFrac(cs, i, d, e, f) ==
    IF f = e + 1 THEN JOk(VInt(Signed(cs[i] = "-", DigitsVal(SubSeq(cs, d, e - 1)))), e)
    ELSE JOk(NormFloat(Signed(cs[i] = "-",
                              DigitsVal(SubSeq(cs, d, e - 1) \o SubSeq(cs, e + 1, f - 1))),
                       f - e - 1), f)
JInt(cs, i, d, e) ==
    IF e = d THEN JFail
    ELSE IF At(cs, e) = "." THEN JFrac(cs, i, d, e, DigitRun(cs, e + 1))
    ELSE JOk(VInt(Signed(cs[i] = "-", DigitsVal(SubSeq(cs, d, e - 1)))), e)
JDigits(cs, i, d) == JInt(cs, i, d, IF At(cs, d) = "0" THEN d + 1 ELSE DigitRun(cs, d))
JNumber(cs, i) == JDigits(cs, i, IF cs[i] = "-" THEN i + 1 ELSE i)

RECURSIVE JValue(_, _)
RECURSIVE JElement(_, _, _)
RECURSIVE JElementValue(_, _, _)
RECURSIVE JElementNext(_, _, _)
RECURSIVE JMember(_, _, _)
RECURSIVE JMemberKey(_, _, _)
RECURSIVE JMemberColon(_, _, _, _)
RECURSIVE JMemberValue(_, _, _, _)
RECURSIVE JMemberNext(_, _, _)
JElementNext(cs, acc, i) ==
    IF At(cs, i) = "]" THEN JOk(VList(acc), i + 1)
    ELSE IF At(cs, i) = "," THEN JElement(cs, SkipWs(cs, i + 1), acc)
    ELSE JFail
JElementValue(cs, acc, r) ==
    IF ~r.ok THEN JFail ELSE JElementNext(cs, Append(acc, r.v), SkipWs(cs, r.i))
JElement(cs, i, acc) == JElementValue(cs, acc, JValue(cs, i))
JMemberNext(cs, acc, i) ==
    IF At(cs, i) = "}" THEN JOk(acc, i + 1)
    ELSE IF At(cs, i) = "," THEN JMember(cs, SkipWs(cs, i + 1), acc)
    ELSE JFail
JMemberValue(cs, acc, key, r) ==
    IF ~r.ok THEN JFail ELSE JMemberNext(cs, Put(acc, Cat(key[2]), r.v), SkipWs(cs, r.i))
JMemberColon(cs, acc, key, i) ==
    IF At(cs, i) = ":" THEN JMemberValue(cs, acc, key, JValue(cs, SkipWs(cs, i + 1)))
    ELSE JFail
JMemberKey(cs, acc, k) ==
    IF ~k.ok THEN JFail ELSE JMemberColon(cs, acc, k.v, SkipWs(cs, k.i))
JMember(cs, i, acc) ==
    IF At(cs, i) = "\"" THEN JMemberKey(cs, acc, JString(cs, i + 1, <<>>)) ELSE JFail
JArray(cs, i) == IF At(cs, i) = "]" THEN JOk(VList(<<>>), i + 1) ELSE JElement(cs, i, <<>>)
JObject(cs, i) == IF At(cs, i) = "}" THEN JOk(EmptyDict, i + 1) ELSE JMember(cs, i, EmptyDict)
\* the value that begins at index i
JValue(cs, i) ==
    CASE At(cs, i) = "\"" -> JString(cs, i + 1, <<>>)
      [] At(cs, i) = "{" -> JObject(cs, SkipWs(cs, i + 1))
      [] At(cs, i) = "[" -> JArray(cs, SkipWs(cs, i + 1))
      [] At(cs, i) = "-" \/ IsDigit(At(cs, i)) -> JNumber(cs, i)
      [] StartsWith(cs, i, <<"n", "u", "l", "l">>) -> JOk(PyNone, i + 4)
      [] StartsWith(cs, i, <<"t", "r", "u", "e">>) -> JOk(VBool(TRUE), i + 4)
      [] StartsWith(cs, i, <<"f", "a", "l", "s", "e">>) -> JOk(VBool(FALSE), i + 5)
      [] OTHER -> JFail
\* the whole text is one value
JWhole(cs, r) ==
    IF r.ok /\ SkipWs(cs, r.i) = Len(cs) + 1 THEN <<"ok", r.v>>
    ELSE <<"err", "JSONDecodeError">>
\* json.loads(cs)
json_loads(cs) == JWhole(cs, JValue(cs, SkipWs(cs, 1)))

\* --------------------------------------------- launcher: the script text
TripleQuote == <<"\"", "\"", "\"">>
\* a launcher that embeds the JSON text as it is
KeepBackslashes(cs) == cs
\* line 401: replace('\\', '\\\\')
RECURSIVE DoubleBackslashes(_)
DoubleBackslashes(cs) ==
    IF cs = <<>> THEN <<>>
    ELSE (IF cs[1] = "\\" THEN <<"\\", "\\">> ELSE <<cs[1]>>) \o DoubleBackslashes(Tail(cs))
\* line 401: replace('"""', '\\"\\"\\"')
RECURSIVE EscapeTripleQuotes(_)
EscapeTripleQuotes(cs) ==
    IF cs = <<>> THEN <<>>
    ELSE IF StartsWith(cs, 1, TripleQuote)
    THEN <<"\\", "\"", "\\", "\"", "\\", "\"">> \o EscapeTripleQuotes(SubSeq(cs, 4, Len(cs)))
    ELSE <<cs[1]>> \o EscapeTripleQuotes(Tail(cs))
\* lines 398-401
escaped_input_str(validated_input) ==
    EscapeTripleQuotes(DoubleBackslashes(json_dumps(validated_input, <<",">>, <<":", " ">>)))
\* line 467 of the script, from the opening quotes of the literal on
_create_execution_script(validated_input) ==
    escaped_input_str(validated_input) \o TripleQuote

\* ---------------------------------------------- launcher: the interpreter
\* the escape sequences of a string literal; an unknown one is kept
PyEscape(c) ==
    CASE c = "\\" -> <<"\\">>
      [] c = "\"" -> <<"\"">>
      [] c = "'" -> <<"'">>
      [] c = "n" -> <<"\n">>
      [] c = "r" -> <<"\r">>
      [] c = "t" -> <<"\t">>
      [] c = "\n" -> <<>>
      [] OTHER -> <<"\\", c>>
\* the value of the triple-quoted literal whose text begins at index i
RECURSIVE PyTripleQuoted(_, _, _)
PyTripleQuoted(cs, i, acc) ==
    IF i > Len(cs) THEN JFail
    ELSE IF StartsWith(cs, i, TripleQuote) THEN JOk(acc, i + 3)
    ELSE IF cs[i] = "\\"
    THEN IF i = Len(cs) THEN JFail ELSE PyTripleQuoted(cs, i + 2, acc \o PyEscape(cs[i + 1]))
    ELSE PyTripleQuoted(cs, i + 1, Append(acc, cs[i]))

\* the tool files of the launches: a tool whose run_sync returns its single
\* argument, a file without a class that inherits from BaseTool and has
\* run_sync, a tool whose constructor raises with and without config, and a
\* tool whose run_sync raises
ToolFiles ==
    {"echo", "no_tool_class", "init_raises", "run_sync_raises", "returns_list",
     "returns_number", "returns_text", "prints_object", "prints_then_list"}
\* run_sync of the echo tool
run_sync(input_data) == input_data
\* what run_sync of the tool file returns: the input, a list that holds it,
\* a number or a string
ToolResult(tool, input_data) ==
    IF tool \in {"returns_list", "prints_then_list"} THEN VList(<<input_data>>)
    ELSE IF tool = "returns_number" THEN VInt(1)
    ELSE IF tool = "returns_text" THEN VStr(<<"{", "}">>)
    ELSE run_sync(input_data)
\* what run_sync of the tool file writes to stdout: print('{"log": 1}')
ToolPrints(tool) ==
    IF tool \in {"prints_object", "prints_then_list"}
    THEN <<"{", "\"", "l", "o", "g", "\"", ":", " ", "1", "}", "\n">>
    ELSE <<>>
\* type(result).__name__
TypeName(result) ==
    IF IsDict(result) THEN "dict" ELSE IF IsList(result) THEN "list"
    ELSE IF result[1] = "str" THEN "str" ELSE "int"

PrintLine(label, text) == <<label>> \o text \o <<"\n">>
\* what the script prints before it reads its input, lines 417-464
DebugSetup ==
    PrintLine("DEBUG: Python path configured: {working_dir}", <<>>)
        \o PrintLine("DEBUG: Tool module loaded successfully", <<>>)
        \o PrintLine("DEBUG: Found tool class: {name}", <<>>)
        \o PrintLine("DEBUG: Creating instance of {tool_class.__name__}", <<>>)
        \o PrintLine("DEBUG: Tool instance created successfully", <<>>)
\* lines 470-496: a run_sync of one parameter gets the whole input
DebugCall(validated_input) ==
    PrintLine("DEBUG: Validated input: ", PyRepr(validated_input))
        \o PrintLine("DEBUG: run_sync signature parameters: ['input_data']", <<>>)
        \o PrintLine("DEBUG: Parameter details: ", <<>>)
        \o PrintLine("DEBUG: Calling run_sync(input_data=", PyRepr(validated_input) \o <<")">>)
\* lines 470-496 and 530-533
ScriptCall(validated_input, tool) ==
    DebugCall(validated_input)
        \o ToolPrints(tool)
        \o PrintLine("DEBUG: Tool execution completed. Result type: <class '{type(result)}'>",
                     <<TypeName(ToolResult(tool, validated_input))>>)
        \o json_dumps(ToolResult(tool, validated_input), <<",", " ">>, <<":", " ">>) \o <<"\n">>
\* lines 535-542: the except branch of the script prints the error as JSON
ScriptError(e) ==
    json_dumps(VDict(<<KV("status", VStr(<<"error">>)), KV("message", VStr(<<e>>)),
                       KV("traceback", VStr(<<"Traceback (most recent call last):", "\n", e, "\n">>))>>),
               <<",", " ">>, <<":", " ">>) \o <<"\n">>
\* lines 428-452: no class of the module passes the search
NoToolClass ==
    PrintLine("DEBUG: Python path configured: {working_dir}", <<>>)
        \o PrintLine("DEBUG: Tool module loaded successfully", <<>>)
        \o ScriptError("No BaseTool subclass found. Classes found: {all_classes}")
\* lines 455-462: tool_class() and tool_class(config=None) both raise
InitRaises ==
    PrintLine("DEBUG: Python path configured: {working_dir}", <<>>)
        \o PrintLine("DEBUG: Tool module loaded successfully", <<>>)
        \o PrintLine("DEBUG: Found tool class: {name}", <<>>)
        \o PrintLine("DEBUG: Creating instance of {tool_class.__name__}", <<>>)
        \o ScriptError("Tool instantiation failed. Error 1: {init_error1}, Error 2: {init_error2}")
\* line 528 or 496: run_sync raises
RunSyncRaises(validated_input) == DebugCall(validated_input) \o ScriptError("{e}")
\* the script on the tool file, lines 410-542; from lines 467-468 on it
\* works on json.loads of the literal
ScriptBody(loaded, tool) ==
    IF tool = "no_tool_class" THEN NoToolClass
    ELSE IF tool = "init_raises" THEN InitRaises
    ELSE IF Raised(loaded) THEN DebugSetup \o ScriptError(loaded[2])
    ELSE IF tool = "run_sync_raises" THEN DebugSetup \o RunSyncRaises(loaded[2])
    ELSE DebugSetup \o ScriptCall(loaded[2], tool)
\* the interpreter on the script: a literal that does not end the line it
\* is on is a syntax error, and nothing runs
Interpreted(script, literal, tool) ==
    IF literal.ok /\ literal.i = Len(script) + 1
    THEN [returncode |-> 0, stdout |-> ScriptBody(json_loads(literal.v), tool), stderr |-> ""]
    ELSE [returncode |-> 1, stdout |-> <<>>, stderr |-> "SyntaxError"]
\* subprocess.run([python_path, execution_script]), lines 323-333
subprocess_run(script, tool) == Interpreted(script, PyTripleQuoted(script, 1, <<>>), tool)

\* --------------------------------------- launcher: binding the parameters
\* a parameter of run_sync: its name, and whether
\* param_info.default != inspect.Parameter.empty
Param(name, has_default) == [name |-> name, has_default |-> has_default]
\* call_kwargs and the lines printed while it is built
NoKwargs == [call_kwargs |-> EmptyDict, warnings |-> <<>>]
Bind(acc, name, value) ==
    [call_kwargs |-> Put(acc.call_kwargs, name, value), warnings |-> acc.warnings]
Warn(acc, name) ==
    [call_kwargs |-> acc.call_kwargs,
     warnings |-> Append(acc.warnings, <<"WARNING: Required parameter '{param_name}' not found in input", name>>)]
\* a binding that tries the common names before the default
BindCommonFirst(acc, param_info, validated_input) ==
    IF Has(validated_input, param_info.name)
    THEN Bind(acc, param_info.name, Get(validated_input, param_info.name))
    ELSE IF param_info.name \in {"input_data", "data"} THEN Bind(acc, param_info.name, validated_input)
    ELSE IF param_info.name = "llm_config" THEN Bind(acc, param_info.name, PyNone)
    ELSE IF param_info.has_default THEN acc
    ELSE Warn(acc, param_info.name)
\* lines 505-524: one pass of the loop over param_names
BindParameter(acc, param_info, validated_input) ==
    IF Has(validated_input, param_info.name)
    THEN Bind(acc, param_info.name, Get(validated_input, param_info.name))
    ELSE IF param_info.has_default THEN acc
    ELSE IF param_info.name \in {"input_data", "data"} THEN Bind(acc, param_info.name, validated_input)
    ELSE IF param_info.name = "llm_config" THEN Bind(acc, param_info.name, PyNone)
    ELSE Warn(acc, param_info.name)
\* lines 502-524
RECURSIVE BindLoop(_, _, _, _)
BindLoop(params, i, validated_input, acc) ==
    IF i > Len(params) THEN acc
    ELSE BindLoop(params, i + 1, validated_input, BindParameter(acc, params[i], validated_input))
\* lines 486-527: the keyword arguments run_sync is called with
BuildKwargs(params, validated_input) ==
    IF Len(params) = 0 THEN NoKwargs
    ELSE IF Len(params) = 1 THEN Bind(NoKwargs, params[1].name, validated_input)
    ELSE BindLoop(params, 1, validated_input, NoKwargs)

\* ----------------------------------------- launcher: signatures of run_sync
ParamNames == {"a", "b", "data", "input_data", "llm_config", "x"}
Params == {Param(name, d) : name \in ParamNames, d \in BOOLEAN}
\* signatures of up to MaxParams parameters; no two parameters of a
\* signature have one name
Signatures ==
    {params \in UNION {[1..n -> Params] : n \in 0..MaxParams} :
        \A i, j \in 1..Len(params) : params[i].name = params[j].name => i = j}
\* validated inputs: keys that are parameters, keys that are none
BoundInputs ==
    {EmptyDict, OneField("a", VInt(1)), OneField("c", VInt(1)),
     VDict(<<KV("b", VInt(2)), KV("a", VInt(1)), KV("c", VInt(3))>>),
     VDict(<<KV("data", VStr(<<"d">>)), KV("input_data", PyNone), KV("llm_config", VInt(4))>>)}

\* ------------------------------------------- launcher: reading the output
\* str.split('\n')
RECURSIVE SplitLines(_)
SplitLines(cs) ==
    IF ~Contains(cs, "\n") THEN <<cs>>
    ELSE LET p == CHOOSE i \in 1..Len(cs) : cs[i] = "\n" /\ \A j \in 1..(i - 1) : cs[j] # "\n"
         IN  <<SubSeq(cs, 1, p - 1)>> \o SplitLines(SubSeq(cs, p + 1, Len(cs)))
\* lines 351-357: the lines from the last one back, the first that loads wins
RECURSIVE LastJsonLine(_, _)
RECURSIVE LineTried(_, _, _)
RECURSIVE LineLoaded(_, _, _)
LineLoaded(output_lines, n, json_output) ==
    IF Raised(json_output) THEN LastJsonLine(output_lines, n - 1) ELSE json_output
LineTried(output_lines, n, line) ==
    IF At(line, 1) = "{" THEN LineLoaded(output_lines, n, json_loads(line))
    ELSE LastJsonLine(output_lines, n - 1)
LastJsonLine(output_lines, n) ==
    IF n = 0 THEN <<"none">> ELSE LineTried(output_lines, n, Strip(output_lines[n]))
\* a scan from the first line on: the first that loads wins
RECURSIVE FirstJsonLine(_, _)
FirstJsonLine(output_lines, n) ==
    IF n > Len(output_lines) THEN <<"none">>
    ELSE IF At(Strip(output_lines[n]), 1) = "{" /\ ~Raised(json_loads(Strip(output_lines[n])))
    THEN json_loads(Strip(output_lines[n]))
    ELSE FirstJsonLine(output_lines, n + 1)
ScanForward(output_lines) == FirstJsonLine(output_lines, 1)
\* lines 351-357
ScanLines(output_lines) == LastJsonLine(output_lines, Len(output_lines))
\* lines 363-377
LaunchResult(json_output, result) ==
    IF Raised(json_output)
    THEN [status |-> "error", message |-> <<"Tool output is not valid JSON: {e}", json_output[2]>>,
          stdout |-> result.stdout, stderr |-> result.stderr]
    ELSE [status |-> "success", result |-> json_output[2], stdout |-> result.stdout,
          execution_time |-> "completed"]
\* lines 359-361: no line loaded, the whole output is tried
Extracted(result, json_output) ==
    IF json_output = <<"none">> THEN LaunchResult(json_loads(Strip(result.stdout)), result)
    ELSE LaunchResult(json_output, result)
\* lines 335-377
ParseOutput(result) ==
    IF result.returncode # 0
    THEN [status |-> "error", message |-> <<"Tool execution failed: {result.stderr}", result.stderr>>,
          stdout |-> result.stdout, stderr |-> result.stderr]
    ELSE Extracted(result, ScanLines(SplitLines(Strip(result.stdout))))

\* -------------------------------------------------- DependencyParser
\* a tuple of a dependencies literal
VTuple(xs) == <<"tuple", xs>>
IsTuple(v) == v[1] = "tuple"

\* the characters in the order of their code points
CodePoints ==
    <<"\n", " ", "!", "\"", "'", "-", ".">> \o Digits \o <<"<", "=", ">">> \o UpperCase
        \o <<"_">> \o LowerCase
Ord(c) == CHOOSE i \in 1..Len(CodePoints) : CodePoints[i] = c
\* a < b for two strings
RECURSIVE StrLess(_, _)
StrLess(a, b) ==
    IF b = <<>> THEN FALSE
    ELSE IF a = <<>> THEN TRUE
    ELSE IF a[1] = b[1] THEN StrLess(Tail(a), Tail(b))
    ELSE Ord(a[1]) < Ord(b[1])
Least(packages) == CHOOSE p \in packages : \A q \in packages \ {p} : StrLess(p, q)
Greatest(packages) == CHOOSE p \in packages : \A q \in packages \ {p} : StrLess(q, p)
\* a list that lists the packages from the greatest down
RECURSIVE SortedDescending(_)
DescendingFrom(packages, p) == <<p>> \o SortedDescending(packages \ {p})
SortedDescending(packages) ==
    IF packages = {} THEN <<>> ELSE DescendingFrom(packages, Greatest(packages))
\* sorted(list(packages)) of line 187
RECURSIVE sorted(_)
SortedFrom(packages, p) == <<p>> \o sorted(packages \ {p})
sorted(packages) == IF packages = {} THEN <<>> ELSE SortedFrom(packages, Least(packages))

\* str.strip(chars)
RECURSIVE LStripOf(_, _)
LStripOf(cs, chars) == IF cs # <<>> /\ Head(cs) \in chars THEN LStripOf(Tail(cs), chars) ELSE cs
RECURSIVE RStripOf(_, _)
RStripOf(cs, chars) ==
    IF cs # <<>> /\ cs[Len(cs)] \in chars THEN RStripOf(SubSeq(cs, 1, Len(cs) - 1), chars) ELSE cs
StripOf(cs, chars) == RStripOf(LStripOf(cs, chars), chars)

\* re.sub(r'[><=!]+.*$', '', package): the text from the first specifier
\* character that no line feed follows (but as the last character) is cut
SpecifierChars == {">", "<", "=", "!"}
RestOfLine(cs, i) == \A j \in (i + 1)..Len(cs) : cs[j] = "\n" => j = Len(cs)
SpecifierAt(cs) ==
    {i \in 1..Len(cs) : cs[i] \in SpecifierChars /\ RestOfLine(cs, i)}
CutAt(cs, i) ==
    SubSeq(cs, 1, i - 1) \o (IF cs[Len(cs)] = "\n" /\ i < Len(cs) THEN <<"\n">> ELSE <<>>)
RemoveSpecifier(cs) ==
    IF SpecifierAt(cs) = {} THEN cs
    ELSE CutAt(cs, CHOOSE i \in SpecifierAt(cs) : \A j \in SpecifierAt(cs) : i <= j)

\* lines 14-20
package_mappings ==
    << <<<<"c", "v", "2">>, <<"o", "p", "e", "n", "c", "v", "-", "p", "y", "t", "h", "o", "n">>>>,
       <<<<"P", "I", "L">>, <<"P", "i", "l", "l", "o", "w">>>>,
       <<<<"s", "k", "l", "e", "a", "r", "n">>, <<"s", "c", "i", "k", "i", "t", "-", "l", "e", "a", "r", "n">>>>,
       <<<<"y", "a", "m", "l">>, <<"P", "y", "Y", "A", "M", "L">>>>,
       <<<<"d", "o", "t", "e", "n", "v">>, <<"p", "y", "t", "h", "o", "n", "-", "d", "o", "t", "e", "n", "v">>>> >>
AliasKeys == {package_mappings[i][1] : i \in 1..Len(package_mappings)}
\* a parser that maps no package
KeepPackage(package) == package
\* lines 238-239
MapPackage(package) ==
    IF package \in AliasKeys
    THEN package_mappings[CHOOSE i \in 1..Len(package_mappings) : package_mappings[i][1] = package][2]
    ELSE package

\* re.match(r'^[a-zA-Z0-9][a-zA-Z0-9\-_.]*$', package); $ also matches
\* before a line feed that ends the text
AlNum ==
    {Digits[i] : i \in 1..Len(Digits)} \cup {UpperCase[i] : i \in 1..Len(UpperCase)}
        \cup {LowerCase[i] : i \in 1..Len(LowerCase)}
NameChars(cs) ==
    /\ cs # <<>>
    /\ cs[1] \in AlNum
    /\ \A i \in 2..Len(cs) : cs[i] \in AlNum \cup {"-", "_", "."}
MatchesName(cs) ==
    \/ NameChars(cs)
    \/ (cs # <<>> /\ cs[Len(cs)] = "\n" /\ NameChars(SubSeq(cs, 1, Len(cs) - 1)))

\* lines 235-246, on the text without quotes and blanks
ValidName(package) == IF MatchesName(package) THEN package ELSE <<>>
Cleaned(package) ==
    IF package = <<>> THEN <<>>
    ELSE ValidName(MapPackage(Strip(RemoveSpecifier(package))))
\* lines 221-246; the argument is a string
_clean_package_name(package_name) ==
    IF package_name = <<>> THEN <<>>
    ELSE Cleaned(Strip(StripOf(Strip(package_name), {"'", "\""})))

\* add(package) under "if package"
AddPackage(packages, package) == IF package # <<>> THEN packages \cup {package} ELSE packages
\* lines 202-206
RECURSIVE SubItems(_, _, _)
SubItems(item, i, packages) ==
    IF i > Len(item) THEN packages
    ELSE IF IsStr(item[i])
    THEN SubItems(item, i + 1, AddPackage(packages, _clean_package_name(item[i][2])))
    ELSE SubItems(item, i + 1, packages)
\* lines 209-217: str(item).strip()
OtherItem(item_str) ==
    IF item_str # <<>> /\ item_str # <<"N", "o", "n", "e">>
    THEN AddPackage({}, _clean_package_name(item_str))
    ELSE {}
\* lines 189-219
_process_dependency_item(item) ==
    IF IsStr(item) THEN AddPackage({}, _clean_package_name(item[2]))
    ELSE IF IsTuple(item) \/ IsList(item) THEN SubItems(item[2], 1, {})
    ELSE OtherItem(Strip(PyRepr(item)))
\* lines 180-182
RECURSIVE ItemsLoop(_, _, _)
ItemsLoop(items, i, unique_packages) ==
    IF i > Len(items) THEN unique_packages
    ELSE ItemsLoop(items, i + 1, unique_packages \cup _process_dependency_item(items[i]))
\* lines 172-182
UniquePackages(dependencies_raw) ==
    IF IsStr(dependencies_raw) THEN AddPackage({}, _clean_package_name(dependencies_raw[2]))
    ELSE IF IsList(dependencies_raw) \/ IsTuple(dependencies_raw)
    THEN ItemsLoop(dependencies_raw[2], 1, {})
    ELSE {}
\* line 185: "if pkg and pkg.strip()"
CleanPackages(unique_packages) == {pkg \in unique_packages : pkg # <<>> /\ Strip(pkg) # <<>>}
\* lines 161-187
_parse_dependencies(dependencies_raw) ==
    IF ~Truthy(dependencies_raw) THEN <<>>
    ELSE sorted(CleanPackages(UniquePackages(dependencies_raw)))

\* ------------------------- DependencyParser._find_dependencies_variable
\* ast.literal_eval on the literals of a dependencies assignment: lists,
\* tuples and strings in single or double quotes without escapes
RECURSIVE LString(_, _, _, _)
LString(cs, i, quote, acc) ==
    IF i > Len(cs) \/ At(cs, i) \in {"\n", "\\"} THEN JFail
    ELSE IF cs[i] = quote THEN JOk(VStr(acc), i + 1)
    ELSE LString(cs, i + 1, quote, Append(acc, cs[i]))
Closed(close, acc) == IF close = "]" THEN VList(acc) ELSE VTuple(acc)
RECURSIVE LValue(_, _)
RECURSIVE LSeq(_, _, _, _)
RECURSIVE LAfter(_, _, _, _)
RECURSIVE LNext(_, _, _, _)
\* after an item: the closing character or a comma; (x) is x, not a tuple
LNext(cs, close, acc, i) ==
    IF At(cs, i) = close
    THEN JOk(IF close = ")" /\ Len(acc) = 1 THEN acc[1] ELSE Closed(close, acc), i + 1)
    ELSE IF At(cs, i) = "," THEN LSeq(cs, SkipWs(cs, i + 1), close, acc)
    ELSE JFail
LAfter(cs, close, acc, r) ==
    IF ~r.ok THEN JFail ELSE LNext(cs, close, Append(acc, r.v), SkipWs(cs, r.i))
LSeq(cs, i, close, acc) ==
    IF At(cs, i) = close THEN JOk(Closed(close, acc), i + 1)
    ELSE LAfter(cs, close, acc, LValue(cs, i))
LValue(cs, i) ==
    CASE At(cs, i) \in {"\"", "'"} -> LString(cs, i + 1, cs[i], <<>>)
      [] At(cs, i) = "[" -> LSeq(cs, SkipWs(cs, i + 1), "]", <<>>)
      [] At(cs, i) = "(" -> LSeq(cs, SkipWs(cs, i + 1), ")", <<>>)
      [] OTHER -> JFail
LWhole(cs, r) ==
    IF r.ok /\ SkipWs(cs, r.i) = Len(cs) + 1 THEN <<"ok", r.v>>
    ELSE <<"err", "SyntaxError">>
\* ast.literal_eval(cs)
ast_literal_eval(cs) == LWhole(cs, LValue(cs, SkipWs(cs, 1)))

\* lines 101-159: the text is cut at the commas outside quotes, parentheses
\* and brackets; st is the state of the loop over the characters
ManualStart ==
    [dependencies |-> <<>>, current_item |-> <<>>, paren_count |-> 0, bracket_count |-> 0,
     in_quotes |-> FALSE, quote_char |-> ""]
\* lines 143-144 and 151-152
ItemAdded(dependencies, current_item) ==
    IF Strip(current_item) # <<>> THEN Append(dependencies, VStr(Strip(current_item)))
    ELSE dependencies
Kept(st, char) == [st EXCEPT !.current_item = Append(@, char)]
\* lines 120-148
ManualChar(st, char) ==
    IF char \in {"\"", "'"} /\ ~st.in_quotes
    THEN [Kept(st, char) EXCEPT !.in_quotes = TRUE, !.quote_char = char]
    ELSE IF char = st.quote_char /\ st.in_quotes
    THEN [Kept(st, char) EXCEPT !.in_quotes = FALSE, !.quote_char = ""]
    ELSE IF st.in_quotes THEN Kept(st, char)
    ELSE IF char = "(" THEN [Kept(st, char) EXCEPT !.paren_count = @ + 1]
    ELSE IF char = ")" THEN [Kept(st, char) EXCEPT !.paren_count = @ - 1]
    ELSE IF char = "[" THEN [Kept(st, char) EXCEPT !.bracket_count = @ + 1]
    ELSE IF char = "]" THEN [Kept(st, char) EXCEPT !.bracket_count = @ - 1]
    ELSE IF char = "," /\ st.paren_count = 0 /\ st.bracket_count = 0
    THEN [st EXCEPT !.dependencies = ItemAdded(st.dependencies, st.current_item),
                    !.current_item = <<>>]
    ELSE Kept(st, char)
RECURSIVE ManualLoop(_, _, _)
ManualLoop(deps_str, i, st) ==
    IF i > Len(deps_str) THEN ItemAdded(st.dependencies, st.current_item)
    ELSE IF st.in_quotes /\ deps_str[i] # st.quote_char
    THEN ManualLoop(deps_str, i + 1, Kept(st, deps_str[i]))
    ELSE ManualLoop(deps_str, i + 1, ManualChar(st, deps_str[i]))
ManualItems(deps_str) ==
    IF deps_str = <<>> THEN VList(<<>>) ELSE VList(ManualLoop(deps_str, 1, ManualStart))
\* lines 101-159
_manual_parse_dependencies(deps_str) ==
    ManualItems(Strip(StripOf(deps_str, {"[", "]", "(", ")"})))

DependenciesWord == <<"d", "e", "p", "e", "n", "d", "e", "n", "c", "i", "e", "s">>
\* the index after the first close character from i on, 0 when there is
\* none: the lazy .*? of the patterns of lines 68-70 ends there
FirstClose(content, i, close) ==
    IF \E j \in i..Len(content) : content[j] = close
    THEN CHOOSE j \in i..Len(content) :
             content[j] = close /\ \A k \in i..(j - 1) : content[k] # close
    ELSE 0
\* the group (open .*? close) at index i
GroupAt(content, i, open, close) ==
    IF At(content, i) = open /\ FirstClose(content, i + 1, close) > 0
    THEN SubSeq(content, i, FirstClose(content, i + 1, close))
    ELSE <<>>
\* "=\s*(group)" at index i
AssignedAt(content, i, open, close) ==
    IF At(content, i) = "=" THEN GroupAt(content, SkipWs(content, i + 1), open, close)
    ELSE <<>>
\* "List.*?=\s*(group)" at index i: the first "=" from which the rest matches
AnnotatedAt(content, i) ==
    IF StartsWith(content, i, <<"L", "i", "s", "t">>)
       /\ \E j \in (i + 4)..Len(content) : AssignedAt(content, j, "[", "]") # <<>>
    THEN AssignedAt(content,
                    CHOOSE j \in (i + 4)..Len(content) :
                        /\ AssignedAt(content, j, "[", "]") # <<>>
                        /\ \A k \in (i + 4)..(j - 1) : AssignedAt(content, k, "[", "]") = <<>>,
                    "[", "]")
    ELSE <<>>
\* what the pattern captures when it matches at index i, <<>> when it does not
PatternAt(content, i, pattern) ==
    IF ~StartsWith(content, i, DependenciesWord) THEN <<>>
    ELSE IF pattern = 1 THEN AssignedAt(content, SkipWs(content, i + 12), "[", "]")
    ELSE IF pattern = 3 THEN AssignedAt(content, SkipWs(content, i + 12), "(", ")")
    ELSE IF At(content, SkipWs(content, i + 12)) = ":"
    THEN AnnotatedAt(content, SkipWs(content, SkipWs(content, i + 12) + 1))
    ELSE <<>>
\* re.findall(pattern, content)[0], <<>> when nothing matches
FirstMatch(content, pattern) ==
    IF \E i \in 1..Len(content) : PatternAt(content, i, pattern) # <<>>
    THEN PatternAt(content,
                   CHOOSE i \in 1..Len(content) :
                       /\ PatternAt(content, i, pattern) # <<>>
                       /\ \A k \in 1..(i - 1) : PatternAt(content, k, pattern) = <<>>,
                   pattern)
    ELSE <<>>
\* lines 73-86: the match is evaluated, and parsed by hand when it is no literal
Evaluated(deps_str, dependencies) ==
    IF Raised(dependencies) THEN _manual_parse_dependencies(deps_str) ELSE dependencies[2]
\* lines 63-99. A text that the class pattern of line 89 matches is matched
\* by the first pattern as well, so lines 90-97 are never reached
RECURSIVE PatternsFrom(_, _)
PatternsFrom(content, pattern) ==
    IF pattern > 3 THEN PyNone
    ELSE IF FirstMatch(content, pattern) # <<>>
    THEN Evaluated(Strip(FirstMatch(content, pattern)),
                   ast_literal_eval(Strip(FirstMatch(content, pattern))))
    ELSE PatternsFrom(content, pattern + 1)
_find_dependencies_variable(content) == PatternsFrom(content, 1)
\* lines 44-58, on the content of a file that exists
Extracted_dependencies(dependencies_raw) ==
    IF dependencies_raw = PyNone THEN <<>> ELSE _parse_dependencies(dependencies_raw)
extract_dependencies_from_file(content) ==
    Extracted_dependencies(_find_dependencies_variable(content))

\* -------------------------------------------- DependencyParser: tool files
\* the text of a literal: items in double quotes
RECURSIVE Rendered(_, _)
RECURSIVE RenderedItems(_, _, _)
RenderedItems(items, i, sep) ==
    IF i > Len(items) THEN <<>>
    ELSE (IF i > 1 THEN sep ELSE <<>>) \o Rendered(items[i], sep) \o RenderedItems(items, i + 1, sep)
Rendered(v, sep) ==
    IF IsStr(v) THEN <<"\"">> \o v[2] \o <<"\"">>
    ELSE IF IsList(v) THEN <<"[">> \o RenderedItems(v[2], 1, sep) \o <<"]">>
    ELSE <<"(">> \o RenderedItems(v[2], 1, sep) \o <<")">>
DeclaredNames == {<<"p", "a", "n", "d", "a", "s">>, <<"c", "v", "2">>, <<"n", "u", "m", "p", "y">>}
\* a declared item: a string, or a pair-shaped list or tuple of strings
DeclaredItems ==
    {VStr(n) : n \in DeclaredNames}
        \cup {VList(<<VStr(n), VStr(n)>>) : n \in DeclaredNames}
        \cup {VTuple(<<VStr(n), VStr(n)>>) : n \in DeclaredNames}
        \cup {VList(<<VStr(<<"c", "v", "2">>), VStr(<<"n", "u", "m", "p", "y">>)>>)}
DeclaredLists == {VList(xs) : xs \in UNION {[1..n -> DeclaredItems] : n \in 0..MaxDeps}}
\* how the assignment is written: plain or annotated, the items on one line
\* or on lines of their own
Targets ==
    {DependenciesWord \o <<" ", "=", " ">>,
     DependenciesWord \o <<":", " ", "L", "i", "s", "t", "[", "s", "t", "r", "]", " ", "=", " ">>}
Separators == {<<",", " ">>, <<",", "\n", " ">>}
ToolSources ==
    {[declared |-> d,
      content |-> <<"c", "l", "a", "s", "s", " ", "T", ":", "\n", " ">> \o t \o Rendered(d, sep) \o <<"\n">>] :
        d \in DeclaredLists, t \in Targets, sep \in Separators}

\* ------------------------------------------- DependencyParser: inputs
\* the characters of the dependency strings: letters, a digit, the dash, the
\* blank, a quote, specifier characters and the line feed
DepChars == {"a", "B", "2", "-", " ", "'", ">", "=", "\n"}
RECURSIVE DepStringsOfLen(_)
DepStringsOfLen(n) ==
    IF n = 0 THEN {<<>>}
    ELSE {<<c>> \o cs : c \in DepChars, cs \in DepStringsOfLen(n - 1)}
DepStrings == UNION {DepStringsOfLen(n) : n \in 0..MaxStrLen}
\* declarations as tool files write them
DeclaredTexts ==
    AliasKeys \cup
    {<<"c", "v", "2", ">", "=", "4", ".", "5">>, <<" ", "'", "P", "I", "L", "'", " ">>, <<"y", "a", "m", "l", "=", "=", "6">>, <<"\"", "s", "k", "l", "e", "a", "r", "n", "\"">>, <<"d", "o", "t", "e", "n", "v", "!", "=", "1">>,
     <<"c", "v", "2", " ", ">", "=", " ", "4">>, <<"o", "p", "e", "n", "c", "v", "-", "p", "y", "t", "h", "o", "n">>, <<"P", "i", "l", "l", "o", "w">>, <<"P", "y", "Y", "A", "M", "L">>, <<"p", "a", "n", "d", "a", "s">>,
     <<"n", "u", "m", "p", "y">>, <<"r", "e", "q", "u", "e", "s", "t", "s", ">", "=", "2", ".", "0">>, <<"c", "v", "2", "<", "5">>, <<"s", "c", "i", "k", "i", "t", "-", "l", "e", "a", "r", "n">>}
DepItems ==
    {VStr(<<"p", "a", "n", "d", "a", "s">>), VStr(<<"n", "u", "m", "p", "y">>), VStr(<<"c", "v", "2">>), VStr(<<"y", "a", "m", "l", "=", "=", "6">>),
     VStr(<<"o", "p", "e", "n", "c", "v", "-", "p", "y", "t", "h", "o", "n">>), VStr(<<>>), VStr(<<"a", " ", "b">>), PyNone, VInt(2),
     VTuple(<<VStr(<<"p", "a", "n", "d", "a", "s">>), VStr(<<"p", "a", "n", "d", "a", "s">>)>>),
     VList(<<VStr(<<"P", "I", "L">>), VInt(1)>>),
     OneField("a", VInt(1))}
DepItemLists == UNION {[1..n -> DepItems] : n \in 1..MaxDeps}
\* the values the dependencies variable of a tool file can have
RawDependencies ==
    {PyNone, VList(<<>>), VTuple(<<>>), VInt(1), OneField("a", VInt(1))}
        \cup {VStr(cs) : cs \in DepStrings \cup DeclaredTexts}
        \cup {VList(xs) : xs \in DepItemLists} \cup {VTuple(xs) : xs \in DepItemLists}

\* ------------------------------------------------------ GitHubToolDownloader
\* "a in b" on strings
HasSubstring(a, b) == \E i \in 0..(Len(b) - Len(a)) : SubSeq(b, i + 1, i + Len(a)) = a
endswith(cs, suffix) ==
    /\ Len(suffix) <= Len(cs)
    /\ SubSeq(cs, Len(cs) - Len(suffix) + 1, Len(cs)) = suffix
DotPy == <<".", "p", "y">>
\* f.name.replace('.py', ''): every occurrence from the left is removed
RECURSIVE RemoveDotPy(_)
RemoveDotPy(cs) ==
    IF cs = <<>> THEN <<>>
    ELSE IF Len(cs) >= 3 /\ SubSeq(cs, 1, 3) = DotPy THEN RemoveDotPy(SubSeq(cs, 4, Len(cs)))
    ELSE <<Head(cs)>> \o RemoveDotPy(Tail(cs))
\* line 115
RECURSIVE available_tools(_)
available_tools(all_files) ==
    IF all_files = <<>> THEN <<>>
    ELSE IF endswith(Head(all_files), DotPy)
         THEN <<RemoveDotPy(Head(all_files))>> \o available_tools(Tail(all_files))
         ELSE available_tools(Tail(all_files))
\* the condition of line 117
Similar(t, tool_name) ==
    \/ HasSubstring(Lower(tool_name), Lower(t))
    \/ HasSubstring(Lower(t), Lower(tool_name))
\* line 117
similar_tools(available, tool_name) == SelectSeq(available, LAMBDA t : Similar(t, tool_name))
\* the cap of line 121
SuggestionCap == 5
\* lines 119-122: one logged line for each of similar_tools[:5]
Suggested(similar) ==
    IF Len(similar) <= SuggestionCap THEN similar ELSE SubSeq(similar, 1, SuggestionCap)
\* lines 99-106
DownloadSuccess(tool_name) ==
    [status |-> "success", tool_name |-> tool_name, filename |-> tool_name \o DotPy]
\* lines 108, 126, 128-130 and 132-135
DownloadError(message) == [status |-> "error", message |-> message]
\* lines 38-135. fetch is what repo.get_contents of the tool file does:
\* it returns the file, raises with 404 in the text, or raises otherwise
download_tool_from_github(tool_name, connect, fetch) ==
    IF connect = "raised" THEN DownloadError(<<"Error connecting to GitHub: {e}">>)
    ELSE IF fetch = "ok" THEN DownloadSuccess(tool_name)
    ELSE IF fetch = "404" THEN DownloadError(<<"Tool '{tool_name}.py' not found in repository!", tool_name>>)
    ELSE DownloadError(<<"Error downloading tool: {e}">>)
\* the suggestion lines the call writes to the log (lines 119-122);
\* listing is what get_contents of the folder does at line 114, and a
\* listing that raises is passed over (lines 123-124)
LoggedSuggestions(tool_name, connect, fetch, listing, all_files) ==
    IF connect = "ok" /\ fetch = "404" /\ listing = "ok"
    THEN Suggested(similar_tools(available_tools(all_files), tool_name))
    ELSE <<>>

\* file names of the tools folder
RepoFiles ==
    << <<"a", ".", "p", "y">>, <<"A", "1", ".", "p", "y">>, <<"a", "b", ".", "p", "y">>,
       <<"B", "a", ".", "p", "y">>, <<"R", "E", "A", "D", "M", "E", ".", "m", "d">>,
       <<"b", "a", "a", ".", "p", "y">>, <<"a", ".", "p", "y", ".", "p", "y">>,
       <<"b", ".", "p", "y">>, <<"a", "a", ".", "p", "y">>, <<"a", ".", "p", "y", "c">> >>
\* a folder holds some of the files, in the order of the listing
RECURSIVE Folders(_)
Folders(n) ==
    IF n = 0 THEN {<<>>}
    ELSE Folders(n - 1) \cup {fs \o <<RepoFiles[n]>> : fs \in Folders(n - 1)}
RequestedTools == {<<"a">>, <<"A", "B">>, <<"b", "a", "a", "d">>, <<"m">>}
InFolder(tool_name, all_files) == \E i \in 1..Len(all_files) : all_files[i] = tool_name \o DotPy
\* a request: the folder, and what the three calls to GitHub do. The
\* file is fetched only when the folder holds it, and 404 is the answer
\* only when the folder does not hold it
DownloadRequests ==
    {r \in [tool_name : RequestedTools, all_files : Folders(Len(RepoFiles)),
            connect : {"ok", "raised"}, fetch : {"ok", "404", "raised"},
            listing : {"ok", "raised"}] :
        /\ r.fetch = "ok" => InFolder(r.tool_name, r.all_files)
        /\ r.fetch = "404" => ~InFolder(r.tool_name, r.all_files)
        /\ r.connect = "raised" => (r.fetch = "raised" /\ r.listing = "raised")
        /\ r.fetch # "404" => r.listing = "raised"}

\* ------------------------------------------- the outputs of a child
\* lines that a tool and the script print
PrintedLines ==
    {<<"{", "\"", "a", "\"", ":", " ", "1", "}">>, <<" ", "{", "\"", "b", "\"", ":", " ", "2", "}", " ">>, <<"{">>, <<"}">>, <<"\"", "a", "\"", ":", " ", "1">>, <<"D", "E", "B", "U", "G", ":", " ", "x">>, <<"[", "1", "]">>,
     <<>>, <<"n", "u", "l", "l">>, <<"{", "\"", "a", "\"", ":", " ", "1", "}", " ", "x">>}
\* most lines of one output
MaxLines == 3
RECURSIVE JoinLines(_)
JoinLines(ls) ==
    IF ls = <<>> THEN <<>>
    ELSE IF Len(ls) = 1 THEN ls[1]
    ELSE ls[1] \o <<"\n">> \o JoinLines(Tail(ls))
PrintedTexts ==
    {JoinLines(ls) \o end : ls \in UNION {[1..n -> PrintedLines] : n \in 1..MaxLines},
                            end \in {<<>>, <<"\n">>}}
\* what subprocess.run returned, lines 323-333
CompletedProcesses ==
    {[returncode |-> rc.code, stdout |-> out, stderr |-> rc.err] :
        rc \in {[code |-> 0, err |-> ""], [code |-> 0, err |-> "DeprecationWarning"],
                [code |-> 1, err |-> "Traceback"]},
        out \in PrintedTexts}

\* ----------------------------------------------------------- variables
VARIABLES
    vschema,    \* validator: index of the input schema in Schemas
    vdoc,       \* validator: the caller's document
    vout,       \* validator: what validate_input returned
    vdone,      \* validator: validate_input has returned
    linput,     \* launcher: the validated input of the launch
    ltool,      \* launcher: the tool file of the launch
    lscript,    \* launcher: the input literal of the generated script
    lproc,      \* launcher: the completed process of the script
    lout,       \* launcher: what _execute_tool_in_environment returned
    lpc,        \* launcher: its position
    fn,         \* function check: the function that is applied
    farg,       \* function check: its argument
    fret,       \* function check: what it returned
    fdone,      \* function check: the function has returned
    flog,       \* function check: the lines it logged for the user
    disk,       \* sandbox roots that exist as directories
    active,     \* keys of env_manager.active_environments, in insertion order
    atexit,     \* roots whose removal is registered with atexit
    venvs,      \* roots that hold their virtual environment (tool_venv)
    op,         \* per thread: the operation it runs
    pc,         \* per thread: its position in that operation
    loc,        \* per thread: the local variables of execute_tool
    cl,         \* per thread: the frame of cleanup_environment
    resp,       \* per thread: the value execute_tool returns
    hist,       \* per thread: what the running call has done so far
    globals,    \* accessors: the module globals env_manager and db_connector
    built,      \* accessors: how many objects of each class were constructed
    acc         \* accessors: per thread, the call it is in and what it got

valvars == <<vschema, vdoc, vout, vdone>>
runvars == <<linput, ltool, lscript, lproc, lout, lpc>>
fnvars == <<fn, farg, fret, fdone, flog>>
accvars == <<globals, built, acc>>
purevars == <<vschema, vdoc, vout, vdone, linput, ltool, lscript, lproc, lout, lpc, fn, farg, fret, fdone, flog,
              globals, built, acc>>
mgrvars == <<disk, active, atexit, venvs>>
pipevars == <<disk, active, atexit, venvs, op, pc, loc, cl, resp, hist>>
vars == <<vschema, vdoc, vout, vdone, linput, ltool, lscript, lproc, lout, lpc, fn, farg, fret, fdone, flog, disk, active, atexit, venvs, op, pc, loc, cl,
          resp, hist, globals, built, acc>>

\* the request threads: the server runs every request in a thread of its
\* own, which serves that one call; every race on the manager is between
\* two calls
Threads == {1, 2}

NoResult == ValidationResult(FALSE, EmptyDict, <<>>, <<>>)
\* env_info = None / temp_base_dir not bound
NoEnv == 0
NoResp == [status |-> "none"]
NoLoc == [request |-> 0, temp_base_dir |-> NoEnv, env_info |-> NoEnv,
          validation_result |-> NoResult, dependencies |-> <<>>, todo |-> <<>>,
          install_results |-> [success |-> TRUE, installed |-> <<>>, failed |-> <<>>,
                               errors |-> <<>>, message |-> ""]]
NoFrame == [dir |-> NoEnv, attempt |-> 0, ret |-> "idle"]
NoHist == [steps |-> <<>>, ok |-> {}, lookup |-> "", validated |-> FALSE,
           cleanups |-> <<>>, keyerror |-> FALSE, removed |-> FALSE, create_failed |-> "",
           pip |-> <<>>]

\* ------------------------------------------------------ validator spec
PipeIdle ==
    /\ disk = {} /\ active = <<>> /\ atexit = {} /\ venvs = {}
    /\ op = [t \in Threads |-> "none"]
    /\ pc = [t \in Threads |-> "idle"]
    /\ loc = [t \in Threads |-> NoLoc]
    /\ cl = [t \in Threads |-> NoFrame]
    /\ resp = [t \in Threads |-> NoResp]
    /\ hist = [t \in Threads |-> NoHist]

ValIdle == vschema = 1 /\ vdoc = EmptyDict /\ vout = NoResult /\ vdone = FALSE
\* no process has run
NoProc == [returncode |-> 0, stdout |-> <<>>, stderr |-> ""]
RunIdle ==
    /\ linput = EmptyDict /\ ltool = "" /\ lscript = <<>> /\ lproc = NoProc /\ lout = NoResp
    /\ lpc = "idle"
\* no accessor was called: the globals are None (0)
GlobalNames == {"env_manager", "db_connector"}
NoCall == [fn |-> "", pc |-> "idle", new |-> 0, got |-> [g \in GlobalNames |-> 0]]
AccIdle ==
    /\ globals = [g \in GlobalNames |-> 0]
    /\ built = [g \in GlobalNames |-> 0]
    /\ acc = [t \in Threads |-> NoCall]
\* no function is applied
FnIdle == fn = "" /\ farg = PyNone /\ fret = PyNone /\ fdone = FALSE /\ flog = <<>>

ValInit ==
    /\ vschema \in 1..Len(Schemas)
    /\ vdoc \in Documents
    /\ vout = NoResult
    /\ vdone = FALSE
    /\ RunIdle
    /\ FnIdle
    /\ PipeIdle
    /\ AccIdle

\* SchemaValidator.validate_input applied to the drawn document and schema
Validate ==
    /\ ~vdone
    /\ vout' = validate_input(vdoc, Schemas[vschema])
    /\ vdone' = TRUE
    /\ UNCHANGED <<vschema, vdoc, runvars, fnvars>>
    /\ UNCHANGED <<pipevars, accvars>>

ValNext == Validate

SpecVal == ValInit /\ [][ValNext]_vars

\* ------------------------------------------------------- launcher spec
\* the characters of the launched strings: the quote, the backslash, the
\* line feed, a letter outside ASCII, the brace and a plain letter
EchoChars == {"\"", "\\", "\n", "é", "{", "a"}
RECURSIVE EchoStringsOfLen(_)
EchoStringsOfLen(n) ==
    IF n = 0 THEN {<<>>}
    ELSE {<<c>> \o cs : c \in EchoChars, cs \in EchoStringsOfLen(n - 1)}
EchoStrings == UNION {EchoStringsOfLen(n) : n \in 0..MaxStrLen}
EchoValues ==
    {VStr(cs) : cs \in EchoStrings} \cup {VInt(n) : n \in (0 - MaxInt)..MaxInt}
        \cup {PyNone, VBool(TRUE), VBool(FALSE), VFloat(15, 1), VFloat(0 - 15, 1),
              VList(<<>>), VList(<<VStr(<<"\"">>), VInt(1)>>), EmptyDict,
              OneField("x", VStr(<<"\\", "\n">>)),
              VList(<<OneField("x", VStr(<<"\"", "\"">>)), VStr(<<"\"">>)>>)}
\* the validated inputs of the launches
EchoInputs ==
    {EmptyDict} \cup {OneField("a", v) : v \in EchoValues}
        \cup {VDict(<<KV("a", VStr(<<c>>)), KV("b", VStr(<<d>>))>>) : c \in EchoChars, d \in EchoChars}

RunInit ==
    /\ linput \in EchoInputs
    /\ ltool \in ToolFiles
    /\ lscript = <<>>
    /\ lproc = NoProc
    /\ lout = NoResp
    /\ lpc = "script"
    /\ ValIdle
    /\ FnIdle
    /\ PipeIdle
    /\ AccIdle

\* line 312: the script is generated
CreateExecutionScript ==
    /\ lpc = "script"
    /\ lscript' = _create_execution_script(linput)
    /\ lpc' = "run"
    /\ UNCHANGED <<linput, ltool, lproc, lout, valvars, fnvars, pipevars, accvars>>

\* lines 323-333 and 379-383: the script runs to its end or times out
RunScript ==
    /\ lpc = "run"
    /\ \E outcome \in {"completed", "timeout"} :
         IF outcome = "completed"
         THEN /\ lproc' = subprocess_run(lscript, ltool)
              /\ lpc' = "parse"
              /\ lout' = lout
         ELSE /\ lout' = [status |-> "error", message |-> <<"Tool execution timeout (5 minutes)">>]
              /\ lpc' = "done"
              /\ lproc' = lproc
    /\ UNCHANGED <<linput, ltool, lscript, valvars, fnvars, pipevars, accvars>>

\* lines 335-377: the result is read from the output
ReadOutput ==
    /\ lpc = "parse"
    /\ lout' = ParseOutput(lproc)
    /\ lpc' = "done"
    /\ UNCHANGED <<linput, ltool, lscript, lproc, valvars, fnvars, pipevars, accvars>>

RunNext == CreateExecutionScript \/ RunScript \/ ReadOutput

SpecRun == RunInit /\ [][RunNext]_vars

\* ------------------------------------------------- dependency parser spec
DepInit ==
    /\ fn = "_parse_dependencies"
    /\ farg \in RawDependencies
    /\ fret = PyNone
    /\ fdone = FALSE
    /\ flog = <<>>
    /\ ValIdle
    /\ RunIdle
    /\ PipeIdle
    /\ AccIdle

\* DependencyParser._parse_dependencies applied to the drawn value
ParseDependencies ==
    /\ fn = "_parse_dependencies"
    /\ ~fdone
    /\ fret' = _parse_dependencies(farg)
    /\ fdone' = TRUE
    /\ UNCHANGED <<fn, farg, flog, valvars, runvars, pipevars, accvars>>

DepNext == ParseDependencies

SpecDep == DepInit /\ [][DepNext]_vars

\* ------------------------------------------------------- downloader spec
DownloadInit ==
    /\ fn = "download_tool_from_github"
    /\ farg \in DownloadRequests
    /\ fret = PyNone
    /\ fdone = FALSE
    /\ flog = <<>>
    /\ ValIdle
    /\ RunIdle
    /\ PipeIdle
    /\ AccIdle

\* GitHubToolDownloader.download_tool_from_github applied to the request
DownloadTool ==
    /\ fn = "download_tool_from_github"
    /\ ~fdone
    /\ fret' = download_tool_from_github(farg.tool_name, farg.connect, farg.fetch)
    /\ flog' = LoggedSuggestions(farg.tool_name, farg.connect, farg.fetch, farg.listing, farg.all_files)
    /\ fdone' = TRUE
    /\ UNCHANGED <<fn, farg, valvars, runvars, pipevars, accvars>>

DownloadNext == DownloadTool

SpecDownload == DownloadInit /\ [][DownloadNext]_vars

\* ----------------------------------------------------- output spec
OutputInit ==
    /\ fn = "_execute_tool_in_environment"
    /\ farg \in CompletedProcesses
    /\ fret = PyNone
    /\ fdone = FALSE
    /\ flog = <<>>
    /\ ValIdle
    /\ RunIdle
    /\ PipeIdle
    /\ AccIdle

\* lines 335-377 of _execute_tool_in_environment on the completed process
ParseResult ==
    /\ fn = "_execute_tool_in_environment"
    /\ ~fdone
    /\ fret' = ParseOutput(farg)
    /\ fdone' = TRUE
    /\ UNCHANGED <<fn, farg, flog, valvars, runvars, pipevars, accvars>>

OutputNext == ParseResult

SpecOutput == OutputInit /\ [][OutputNext]_vars

\* ------------------------------------------------ integer coercion spec
\* texts longer than the bound of Strings: two signs, a sign and blanks
\* around the digits, a blank inside
LongerTexts ==
    {<<"-", "1", "0">>, <<" ", "-", "1">>, <<"-", "1", " ">>, <<"-", "-", "1">>,
     <<"-", " ", "1">>, <<"1", " ", "0">>, <<"+", "1">>, <<"1", "-">>,
     <<"\t", "1", "\n">>, <<" ", "1", " ">>}
IntegerInputs ==
    InputValues
        \cup {VStr(cs) : cs \in LongerTexts}
        \cup {VFloat(19, 1), VFloat(0 - 19, 1), VFloat(5, 1), VFloat(0 - 5, 1),
              VFloat(20, 1), VFloat(0 - 125, 2)}

IntInit ==
    /\ fn = "_convert_to_integer"
    /\ farg \in IntegerInputs
    /\ fret = PyNone
    /\ fdone = FALSE
    /\ flog = <<>>
    /\ ValIdle
    /\ RunIdle
    /\ PipeIdle
    /\ AccIdle

\* one call of SchemaValidator._convert_to_integer; fret is the outcome:
\* <<"ok", value>> when it returns, <<"err", message>> when it raises
ConvertToInteger ==
    /\ fn = "_convert_to_integer"
    /\ ~fdone
    /\ fret' = _convert_to_integer(farg)
    /\ fdone' = TRUE
    /\ UNCHANGED <<fn, farg, flog, valvars, runvars, pipevars, accvars>>

IntNext == ConvertToInteger

SpecInt == IntInit /\ [][IntNext]_vars

\* ------------------------------------------------------ binding spec
BindInit ==
    /\ fn = "run_sync"
    /\ farg \in [params : Signatures, validated_input : BoundInputs]
    /\ fret = PyNone
    /\ fdone = FALSE
    /\ flog = <<>>
    /\ ValIdle
    /\ RunIdle
    /\ PipeIdle
    /\ AccIdle

\* the launcher builds the keyword arguments of run_sync, lines 472-527
MapParameters ==
    /\ fn = "run_sync"
    /\ ~fdone
    /\ fret' = BuildKwargs(farg.params, farg.validated_input).call_kwargs
    /\ flog' = BuildKwargs(farg.params, farg.validated_input).warnings
    /\ fdone' = TRUE
    /\ UNCHANGED <<fn, farg, valvars, runvars, pipevars, accvars>>

BindNext == MapParameters

SpecBind == BindInit /\ [][BindNext]_vars

\* ----------------------------------------------------- extraction spec
ExtractInit ==
    /\ fn = "extract_dependencies_from_file"
    /\ farg \in ToolSources
    /\ fret = PyNone
    /\ fdone = FALSE
    /\ flog = <<>>
    /\ ValIdle
    /\ RunIdle
    /\ PipeIdle
    /\ AccIdle

\* DependencyParser.extract_dependencies_from_file on the file
ExtractDependencies ==
    /\ fn = "extract_dependencies_from_file"
    /\ ~fdone
    /\ fret' = extract_dependencies_from_file(farg.content)
    /\ fdone' = TRUE
    /\ UNCHANGED <<fn, farg, flog, valvars, runvars, pipevars, accvars>>

ExtractNext == ExtractDependencies

SpecExtract == ExtractInit /\ [][ExtractNext]_vars

\* --------------------------------------------------- pipeline: inputs
\* the requests POSTed to /tools/<name>/execute: the name, the schema of
\* its descriptor and a body
Requests == <<
    [tool_name |-> "ToolA", schema |-> 11, user_input |-> OneField("a", VStr(<<"1">>))],
    [tool_name |-> "ToolA", schema |-> 11, user_input |-> OneField("a", VStr(<<"1", "0">>))],
    [tool_name |-> "ToolB", schema |-> 1, user_input |-> EmptyDict]
>>

\* what extract_dependencies_from_file can return: a duplicate-free list of
\* package names, here the names 1..n in the order of the list
DepLists == {[i \in 1..n |-> i] : n \in 0..MaxDeps}

max_attempts == 3

\* --------------------------------------------- ToolExecutor: decisions
_error_response(message, details) ==
    [status |-> "error", message |-> message, details |-> details]
NoDetails == <<>>

\* Faulty variants of the decisions below; a property that is about a
\* decision must fail when the decision is replaced by its variant.
ToolNeverMissing(tool_details) == FALSE
InputNeverRejected(validation_result) == FALSE
StepNeverFailed(outcome) == FALSE
InstallAlwaysSucceeds(install_results, n) ==
    [install_results EXCEPT !.message = "All {n} dependencies installed successfully"]
NeverNeedsCleanup(env_info) == FALSE

\* "if not tool_details"
ToolMissing(tool_details) == tool_details = "none"

\* "if not validation_result['valid']"
InputRejected(validation_result) == ~validation_result.valid

\* "if blueprint_setup_result / download_result / execution_result failed"
StepFailed(outcome) == outcome # "ok"

\* lines 296-305 of _install_dependencies: the verdict over the two lists
InstallVerdict(install_results, n) ==
    IF install_results.failed # <<>> /\ install_results.installed = <<>>
    THEN [install_results EXCEPT !.success = FALSE,
                                 !.message = "All dependency installations failed"]
    ELSE IF install_results.failed # <<>>
    THEN [install_results EXCEPT !.message = "Some dependencies failed: {failed}"]
    ELSE [install_results EXCEPT !.message = "All {n} dependencies installed successfully"]

\* a loop body that lists a failed package as installed too
InstallOneTwice(install_results, package, outcome) ==
    IF outcome = "ok"
    THEN [install_results EXCEPT !.installed = Append(@, package)]
    ELSE [install_results EXCEPT !.installed = Append(@, package),
                                 !.failed = Append(@, package),
                                 !.errors = Append(@, <<"{package}: {error}", package>>)]

\* lines 278-294: one package through pip
InstallOne(install_results, package, outcome) ==
    IF outcome = "ok"
    THEN [install_results EXCEPT !.installed = Append(@, package)]
    ELSE [install_results EXCEPT !.failed = Append(@, package),
                                 !.errors = Append(@, <<"{package}: {error}", package>>)]

\* "if env_info" of the finally block
NeedsCleanup(env_info) == env_info # NoEnv

\* lines 141-155
SuccessEnvelope(l, result) ==
    [status |-> "success",
     tool_name |-> Requests[l.request].tool_name,
     result |-> result,
     execution_info |-> [validated_input |-> l.validation_result.data,
                         dependencies_installed |-> l.dependencies,
                         validation_warnings |-> l.validation_result.warnings,
                         environment_path |-> l.env_info,
                         blueprint_setup |-> "success"],
     message |-> <<"Tool '{tool_name}' executed successfully">>]

\* an exception that no handler catches: the call ends without an envelope
Propagated(e) == [exception |-> e]
\* "except Exception as e" of execute_tool
Critical(e) == _error_response(<<"Critical execution error: {str(e)}", e>>, <<"exception_type", e>>)

\* the python and pip of a sandbox run only while its tool_venv exists
Whole(root) == root \in venvs

Began(h, step) == [h EXCEPT !.steps = Append(@, step)]
Passed(h, step) == [h EXCEPT !.ok = @ \cup {step}]

\* ------------------------------------------------- pipeline: the calls
Init ==
    /\ PipeIdle
    /\ AccIdle
    /\ ValIdle
    /\ RunIdle
    /\ FnIdle
    /\ AccIdle

\* a request thread enters execute_tool
StartExecuteTool(t) ==
    /\ pc[t] = "idle"
    /\ \E r \in 1..Len(Requests) : loc' = [loc EXCEPT ![t] = [NoLoc EXCEPT !.request = r]]
    /\ op' = [op EXCEPT ![t] = "execute_tool"]
    /\ pc' = [pc EXCEPT ![t] = "lookup"]
    /\ UNCHANGED <<mgrvars, cl, resp, hist, purevars>>

\* STEP 1, lines 49-56
Lookup(t) ==
    /\ pc[t] = "lookup"
    /\ \E found \in {"found", "absent", "store_error", "bad_description"} :
         LET tool_details == IF found \in {"absent", "store_error"} THEN "none" ELSE "details"
             began == [Began(hist[t], "lookup") EXCEPT !.lookup = found]
             h == IF found = "found" THEN Passed(began, "lookup") ELSE began
         IN  /\ hist' = [hist EXCEPT ![t] = h]
             /\ IF ToolMissing(tool_details)
                THEN /\ resp' = [resp EXCEPT ![t] =
                           _error_response(<<"Tool '{tool_name}' not found in database">>, NoDetails)]
                     /\ pc' = [pc EXCEPT ![t] = "finally"]
                ELSE IF found # "found"
                THEN \* tool_details['description'][:100] raises
                     /\ resp' = [resp EXCEPT ![t] = Critical("TypeError")]
                     /\ pc' = [pc EXCEPT ![t] = "finally"]
                ELSE /\ pc' = [pc EXCEPT ![t] = "validate"]
                     /\ UNCHANGED resp
    /\ UNCHANGED <<mgrvars, op, loc, cl, purevars>>

\* lines 63-70: the gate on the validator's answer
Gate(t, validation_result) ==
    /\ loc' = [loc EXCEPT ![t].validation_result = validation_result]
    /\ hist' = [hist EXCEPT ![t] =
                  IF validation_result.valid
                  THEN Passed([Began(@, "validate") EXCEPT !.validated = TRUE], "validate")
                  ELSE [Began(@, "validate") EXCEPT !.validated = TRUE]]
    /\ IF InputRejected(validation_result)
       THEN /\ resp' = [resp EXCEPT ![t] =
                  _error_response(<<"Input validation failed: {errors}", validation_result.errors>>,
                                  <<"validation_errors", validation_result.errors>>)]
            /\ pc' = [pc EXCEPT ![t] = "finally"]
       ELSE /\ pc' = [pc EXCEPT ![t] = "create"]
            /\ UNCHANGED resp

\* STEP 2, lines 58-70
ValidateInput(t) ==
    /\ pc[t] = "validate"
    /\ Gate(t, validate_input(Requests[loc[t].request].user_input,
                              Schemas[Requests[loc[t].request].schema]))
    /\ UNCHANGED <<mgrvars, op, cl, purevars>>

\* ------------------------- VirtualEnvironmentManager.cleanup_environment
\* the call cleanup_environment(dir) made by thread t, returning to pc ret
CallCleanup(t, dir, ret) ==
    /\ cl' = [cl EXCEPT ![t] = [dir |-> dir, attempt |-> 0, ret |-> ret]]
    /\ pc' = [pc EXCEPT ![t] = "cl_exists"]

ReturnFromCleanup(t) ==
    /\ pc' = [pc EXCEPT ![t] = cl[t].ret]
    /\ cl' = [cl EXCEPT ![t] = NoFrame]

\* a del that leaves the key in place
KeepKey(keys, key) == keys
\* del self.active_environments[key]
RemoveKey(keys, key) == SelectSeq(keys, LAMBDA k : k # key)

\* line 154: "if not temp_base_dir or not os.path.exists(temp_base_dir): return"
CleanupExists(t) ==
    /\ pc[t] = "cl_exists"
    /\ IF cl[t].dir \notin disk
       THEN ReturnFromCleanup(t)
       ELSE /\ pc' = [pc EXCEPT ![t] = "cl_check"]
            /\ UNCHANGED cl
    /\ UNCHANGED <<mgrvars, op, loc, resp, hist, purevars>>

\* line 160: "if temp_base_dir in self.active_environments"
CleanupCheck(t) ==
    /\ pc[t] = "cl_check"
    /\ pc' = [pc EXCEPT ![t] =
                IF \E i \in 1..Len(active) : active[i] = cl[t].dir THEN "cl_del" ELSE "cl_rmtree"]
    /\ UNCHANGED <<mgrvars, op, loc, cl, resp, hist, purevars>>

\* line 161: "del self.active_environments[temp_base_dir]"; a key that is gone
\* raises KeyError, which line 180 catches: the call returns without removing
CleanupDel(t) ==
    /\ pc[t] = "cl_del"
    /\ IF \E i \in 1..Len(active) : active[i] = cl[t].dir
       THEN /\ active' = RemoveKey(active, cl[t].dir)
            /\ pc' = [pc EXCEPT ![t] = "cl_rmtree"]
            /\ UNCHANGED <<cl, hist>>
       ELSE /\ ReturnFromCleanup(t)
            /\ hist' = [hist EXCEPT ![t].keyerror = TRUE]
            /\ UNCHANGED active
    /\ UNCHANGED <<disk, atexit, venvs, op, loc, resp, purevars>>

\* lines 165-178: one pass of the retry loop around shutil.rmtree
CleanupRmtree(t) ==
    /\ pc[t] = "cl_rmtree"
    /\ \E removed \in {TRUE, FALSE} :
         /\ removed => cl[t].dir \in disk
         /\ IF removed
            THEN /\ disk' = disk \ {cl[t].dir}
                 /\ venvs' = venvs \ {cl[t].dir}
                 /\ hist' = [hist EXCEPT ![t].removed = TRUE]
                 /\ ReturnFromCleanup(t)
                 /\ UNCHANGED atexit
            ELSE /\ IF cl[t].attempt < max_attempts - 1
                    THEN /\ cl' = [cl EXCEPT ![t].attempt = @ + 1]
                         /\ UNCHANGED <<pc, atexit>>
                    ELSE /\ atexit' = atexit \cup {cl[t].dir}
                         /\ ReturnFromCleanup(t)
                 /\ UNCHANGED <<disk, venvs, hist>>
    /\ UNCHANGED <<active, op, loc, resp, purevars>>

\* ---------------- VirtualEnvironmentManager.create_isolated_environment
\* a handler that goes straight to the raise of line 149
CreateFailsNoCleanup(t, stage) ==
    /\ pc' = [pc EXCEPT ![t] = "create_raise"]
    /\ cl' = cl
    /\ hist' = [hist EXCEPT ![t].create_failed = stage]

\* "except Exception" of create, lines 144-149, with temp_base_dir bound;
\* stage tells which statement of the try body raised
CreateFails(t, stage) ==
    /\ CallCleanup(t, loc[t].temp_base_dir, "create_raise")
    /\ hist' = [hist EXCEPT ![t].create_failed = stage]

\* the directory names tempfile.mkdtemp draws from
Names == {1, 2}

\* a name drawn without regard to what exists: what a name made of the tool
\* name and the second of the clock alone would be
AnyName(existing, held) == Names

\* lines 33-36: tempfile.mkdtemp creates the directory exclusively, so the
\* name it returns did not exist; its random part keeps it apart from the
\* names the calls in flight still hold
mkdtemp(existing, held) == Names \ (existing \cup held)

\* the roots the calls hold in temp_base_dir
HeldRoots == {loc[u].temp_base_dir : u \in Threads} \ {NoEnv}

\* lines 32-37: tempfile.mkdtemp makes a directory that did not exist
CreateMkdtemp(t) ==
    /\ pc[t] = "create"
    /\ \E made \in {TRUE, FALSE} :
         IF made
         THEN /\ \E temp_base_dir \in mkdtemp(disk, HeldRoots) :
                   /\ disk' = disk \cup {temp_base_dir}
                   /\ loc' = [loc EXCEPT ![t].temp_base_dir = temp_base_dir]
              /\ pc' = [pc EXCEPT ![t] = "venv"]
              /\ UNCHANGED resp
         ELSE /\ resp' = [resp EXCEPT ![t] = Critical("Exception")]
              /\ pc' = [pc EXCEPT ![t] = "finally"]
              /\ UNCHANGED <<disk, loc>>
    /\ hist' = [hist EXCEPT ![t] = Began(@, "create")]
    /\ UNCHANGED <<active, atexit, venvs, op, cl, purevars>>

\* lines 39-59: python -m venv
CreateVenv(t) ==
    /\ pc[t] = "venv"
    /\ \E done \in {TRUE, FALSE} :
         IF done
         THEN /\ venvs' = venvs \cup {loc[t].temp_base_dir}
              /\ pc' = [pc EXCEPT ![t] = "verify"]
              /\ UNCHANGED <<cl, hist>>
         ELSE /\ CreateFails(t, "venv")
              /\ UNCHANGED venvs
    /\ UNCHANGED <<disk, active, atexit, op, loc, resp, purevars>>

\* lines 76-105: <venv python> --version, then <venv pip> --version
CreateVerify(t) ==
    /\ pc[t] = "verify"
    /\ \E done \in {TRUE, FALSE} :
         IF done
         THEN /\ pc' = [pc EXCEPT ![t] = "register"]
              /\ UNCHANGED <<cl, hist>>
         ELSE CreateFails(t, "verify")
    /\ UNCHANGED <<mgrvars, op, loc, resp, purevars>>

\* lines 107-142: the working directories, then the entry in the active set
CreateRegister(t) ==
    /\ pc[t] = "register"
    /\ \E done \in {TRUE, FALSE} :
         IF done
         THEN /\ active' = Append(RemoveKey(active, loc[t].temp_base_dir), loc[t].temp_base_dir)
              /\ loc' = [loc EXCEPT ![t].env_info = loc[t].temp_base_dir]
              /\ pc' = [pc EXCEPT ![t] = "scaffold"]
              /\ hist' = [hist EXCEPT ![t] = Passed(@, "create")]
              /\ UNCHANGED cl
         ELSE /\ CreateFails(t, "register")
              /\ UNCHANGED <<active, loc>>
    /\ UNCHANGED <<disk, atexit, venvs, op, resp, purevars>>

\* line 149: create raises; execute_tool catches it (lines 157-164)
CreateRaise(t) ==
    /\ pc[t] = "create_raise"
    /\ resp' = [resp EXCEPT ![t] = Critical("Exception")]
    /\ pc' = [pc EXCEPT ![t] = "finally"]
    /\ UNCHANGED <<mgrvars, op, loc, cl, hist, purevars>>

\* ------------------------------------------ pipeline: steps 4 to 9
\* Any statement of the try body can raise (lines 157-164 catch it); the
\* outcome "raised" of a step is an exception that reaches that handler.
\* STEP 4, lines 77-85 with _setup_blueprint_structure (lines 176-251);
\* blueprint_dir.mkdir(parents=True) makes the root again when it is gone
Scaffold(t) ==
    /\ pc[t] = "scaffold"
    /\ \E outcome \in {"ok", "no_base_tool", "mkdir_error", "raised"} :
         /\ disk' = IF outcome \in {"mkdir_error", "raised"} THEN disk ELSE disk \cup {loc[t].env_info}
         /\ hist' = [hist EXCEPT ![t] =
                       IF outcome = "ok" THEN Passed(Began(@, "scaffold"), "scaffold")
                       ELSE Began(@, "scaffold")]
         /\ IF outcome = "raised"
            THEN /\ resp' = [resp EXCEPT ![t] = Critical("Exception")]
                 /\ pc' = [pc EXCEPT ![t] = "finally"]
            ELSE IF StepFailed(outcome)
            THEN /\ resp' = [resp EXCEPT ![t] =
                       _error_response(<<"Blueprint setup failed: {message}">>, <<"blueprint_error">>)]
                 /\ pc' = [pc EXCEPT ![t] = "finally"]
            ELSE /\ pc' = [pc EXCEPT ![t] = "download"]
                 /\ UNCHANGED resp
    /\ UNCHANGED <<active, atexit, venvs, op, loc, cl, purevars>>

\* STEP 5, lines 89-100 with download_tool_from_github; target_path.mkdir
\* (parents=True) comes after the connection and before the fetch
Download(t) ==
    /\ pc[t] = "download"
    /\ \E outcome \in {"ok", "not_in_repository", "connect_error", "raised"} :
         /\ disk' = IF outcome \in {"connect_error", "raised"} THEN disk ELSE disk \cup {loc[t].env_info}
         /\ hist' = [hist EXCEPT ![t] =
                       IF outcome = "ok" THEN Passed(Began(@, "download"), "download")
                       ELSE Began(@, "download")]
         /\ IF outcome = "raised"
            THEN /\ resp' = [resp EXCEPT ![t] = Critical("Exception")]
                 /\ pc' = [pc EXCEPT ![t] = "finally"]
            ELSE IF StepFailed(outcome)
            THEN /\ resp' = [resp EXCEPT ![t] =
                       _error_response(<<"Tool download failed: {message}">>, <<"download_error">>)]
                 /\ pc' = [pc EXCEPT ![t] = "finally"]
            ELSE /\ pc' = [pc EXCEPT ![t] = "extract"]
                 /\ UNCHANGED resp
    /\ UNCHANGED <<active, atexit, venvs, op, loc, cl, purevars>>

\* STEP 6, lines 105-109: extract_dependencies_from_file and "if dependencies"
Extract(t) ==
    /\ pc[t] = "extract"
    /\ \E dependencies \in DepLists :
         /\ loc' = [loc EXCEPT ![t].dependencies = dependencies, ![t].todo = dependencies]
         /\ pc' = [pc EXCEPT ![t] = IF dependencies # <<>> THEN "install" ELSE "launch"]
    /\ hist' = [hist EXCEPT ![t] = Passed(Began(@, "extract"), "extract")]
    /\ UNCHANGED <<mgrvars, op, cl, resp, purevars>>

\* _install_dependencies, lines 265-294: one turn of "for package in dependencies"
InstallPackage(t) ==
    /\ pc[t] = "install"
    /\ loc[t].todo # <<>>
    /\ \E outcome \in {"ok", "nonzero", "timeout", "exception"} :
         /\ outcome # "exception" => Whole(loc[t].env_info)
         /\ loc' = [loc EXCEPT ![t].install_results = InstallOne(@, Head(loc[t].todo), outcome),
                               ![t].todo = Tail(@)]
         /\ hist' = [hist EXCEPT ![t] =
                       [(IF Len(loc[t].todo) = Len(loc[t].dependencies) THEN Began(@, "install") ELSE @)
                            EXCEPT !.pip = Append(@, Head(loc[t].todo))]]
    /\ UNCHANGED <<mgrvars, op, pc, cl, resp, purevars>>

\* lines 296-305 of _install_dependencies and lines 111-117 of execute_tool
InstallGate(t) ==
    /\ pc[t] = "install"
    /\ loc[t].todo = <<>>
    /\ LET install_result == InstallVerdict(loc[t].install_results, Len(loc[t].dependencies))
       IN  /\ loc' = [loc EXCEPT ![t].install_results = install_result]
           /\ hist' = [hist EXCEPT ![t] =
                         IF loc[t].install_results.installed # <<>> THEN Passed(@, "install") ELSE @]
           /\ IF ~install_result.success
              THEN /\ resp' = [resp EXCEPT ![t] =
                         _error_response(<<"Dependency installation failed: {message}", install_result.message>>,
                                         <<"dependency_errors", install_result.errors>>)]
                   /\ pc' = [pc EXCEPT ![t] = "finally"]
              ELSE /\ pc' = [pc EXCEPT ![t] = "launch"]
                   /\ UNCHANGED resp
    /\ UNCHANGED <<mgrvars, op, cl, purevars>>

\* STEP 7 and 8, lines 123-155 with _execute_tool_in_environment
Launch(t) ==
    /\ pc[t] = "launch"
    /\ \E outcome \in {"ok", "nonzero_exit", "invalid_json", "timeout", "error", "raised"} :
         /\ outcome \notin {"error", "raised"} => Whole(loc[t].env_info)
         /\ hist' = [hist EXCEPT ![t] =
                       IF outcome = "ok" THEN Passed(Began(@, "launch"), "launch")
                       ELSE Began(@, "launch")]
         /\ resp' = [resp EXCEPT ![t] =
                       IF outcome = "raised" THEN Critical("Exception")
                       ELSE IF StepFailed(outcome)
                       THEN _error_response(<<"Tool execution failed: {message}">>, <<"execution_error">>)
                       ELSE SuccessEnvelope(loc[t], "json_output")]
         /\ pc' = [pc EXCEPT ![t] = "finally"]
    /\ UNCHANGED <<mgrvars, op, loc, cl, purevars>>

\* STEP 9, lines 166-174: the finally block
Finally(t) ==
    /\ pc[t] = "finally"
    /\ IF NeedsCleanup(loc[t].env_info)
       THEN /\ CallCleanup(t, loc[t].env_info, "returned")
            /\ hist' = [hist EXCEPT ![t].cleanups = Append(@, loc[t].env_info)]
       ELSE /\ pc' = [pc EXCEPT ![t] = "returned"]
            /\ UNCHANGED <<cl, hist>>
    /\ UNCHANGED <<mgrvars, op, loc, resp, purevars>>

\* ---------------- VirtualEnvironmentManager.cleanup_all_environments
\* line 190: list(self.active_environments.keys()) is a snapshot
StartCleanupAll(t) ==
    /\ pc[t] = "idle"
    /\ op' = [op EXCEPT ![t] = "cleanup_all_environments"]
    /\ loc' = [loc EXCEPT ![t] = [NoLoc EXCEPT !.todo = active]]
    /\ pc' = [pc EXCEPT ![t] = "all_loop"]
    /\ UNCHANGED <<mgrvars, cl, resp, hist, purevars>>

\* lines 190-191: one turn of the loop over the snapshot
CleanupAllLoop(t) ==
    /\ pc[t] = "all_loop"
    /\ IF loc[t].todo = <<>>
       THEN /\ pc' = [pc EXCEPT ![t] = "returned"]
            /\ UNCHANGED <<cl, loc>>
       ELSE /\ CallCleanup(t, Head(loc[t].todo), "all_loop")
            /\ loc' = [loc EXCEPT ![t].todo = Tail(@)]
    /\ UNCHANGED <<mgrvars, op, resp, hist, purevars>>

Next ==
    \E t \in Threads :
        \/ StartExecuteTool(t)
        \/ Lookup(t)
        \/ ValidateInput(t)
        \/ CreateMkdtemp(t)
        \/ CreateVenv(t)
        \/ CreateVerify(t)
        \/ CreateRegister(t)
        \/ CreateRaise(t)
        \/ Scaffold(t)
        \/ Download(t)
        \/ Extract(t)
        \/ InstallPackage(t)
        \/ InstallGate(t)
        \/ Launch(t)
        \/ Finally(t)
        \/ CleanupExists(t)
        \/ CleanupCheck(t)
        \/ CleanupDel(t)
        \/ CleanupRmtree(t)
        \/ StartCleanupAll(t)
        \/ CleanupAllLoop(t)

Spec == Init /\ [][Next]_vars

\* the steps of cleanup_environment. A thread inside the call is scheduled
\* again, and shutil.rmtree and time.sleep(1) return: each step of the call
\* is taken in the end
CleanupSteps(t) == CleanupExists(t) \/ CleanupCheck(t) \/ CleanupDel(t) \/ CleanupRmtree(t)

\* ------------------------------------------------------- destroy spec
\* the manager after some sandboxes were created: the directories that
\* exist, and the registered roots in the order of registration. The
\* directory of a registered root can be gone: it lies in the temp
\* directory of the system, and the tool that ran in it is free to remove it
ActiveOrders(roots) ==
    {keys \in UNION {[1..n -> roots] : n \in 0..Cardinality(roots)} :
        \A i, j \in 1..Len(keys) : i # j => keys[i] # keys[j]}
DestroyInit ==
    /\ disk \in SUBSET Names
    /\ active \in ActiveOrders(Names)
    /\ atexit = {}
    /\ venvs = disk
    /\ op = [t \in Threads |-> "none"]
    /\ pc = [t \in Threads |-> "idle"]
    /\ loc = [t \in Threads |-> NoLoc]
    /\ cl = [t \in Threads |-> NoFrame]
    /\ resp = [t \in Threads |-> NoResp]
    /\ hist = [t \in Threads |-> NoHist]
    /\ ValIdle
    /\ RunIdle
    /\ FnIdle
    /\ AccIdle

\* a thread calls cleanup_environment(temp_base_dir), line 151
StartCleanup(t) ==
    /\ pc[t] = "idle"
    /\ \E temp_base_dir \in Names :
         /\ loc' = [loc EXCEPT ![t] = [NoLoc EXCEPT !.temp_base_dir = temp_base_dir]]
         /\ CallCleanup(t, temp_base_dir, "returned")
    /\ op' = [op EXCEPT ![t] = "cleanup_environment"]
    /\ UNCHANGED <<mgrvars, resp, hist, purevars>>

DestroyNext ==
    \E t \in Threads :
        \/ StartCleanup(t)
        \/ CleanupExists(t)
        \/ CleanupCheck(t)
        \/ CleanupDel(t)
        \/ CleanupRmtree(t)
        \/ StartCleanupAll(t)
        \/ CleanupAllLoop(t)

SpecDestroy == DestroyInit /\ [][DestroyNext]_vars /\ \A t \in Threads : WF_vars(CleanupSteps(t))

\* ------------------------------------------------------- accessor spec
\* the accessors of the module globals: get_env_manager
\* (virtual_env_manager.py 196-201) and get_db_connector
\* (mongodb_connector.py 91-96)
Accessors == {"get_env_manager", "get_db_connector"}
GlobalOf(f) == IF f = "get_env_manager" THEN "env_manager" ELSE "db_connector"
InCall(t, f, pc_) == acc[t].fn = f /\ acc[t].pc = pc_

AccessInit ==
    /\ AccIdle
    /\ ValIdle
    /\ RunIdle
    /\ FnIdle
    /\ PipeIdle

\* a request thread calls an accessor it has not called yet:
\* ToolExecutor.__init__ (tool_executor.py 25 and 29), app.py 96 and 119
CallAccessor(t) ==
    /\ acc[t].pc = "idle"
    /\ \E f \in Accessors :
         /\ acc[t].got[GlobalOf(f)] = 0
         /\ acc' = [acc EXCEPT ![t].fn = f, ![t].pc = "test"]
    /\ UNCHANGED <<globals, built, valvars, runvars, fnvars, pipevars>>

\* "if env_manager is None:", the global is read
TestNone(t) ==
    /\ acc[t].pc = "test"
    /\ acc' = [acc EXCEPT ![t].pc = IF globals[GlobalOf(acc[t].fn)] = 0 THEN "construct" ELSE "return"]
    /\ UNCHANGED <<globals, built, valvars, runvars, fnvars, pipevars>>

\* the right-hand side "VirtualEnvironmentManager()": a new object
Construct(t) ==
    /\ acc[t].pc = "construct"
    /\ built' = [built EXCEPT ![GlobalOf(acc[t].fn)] = @ + 1]
    /\ acc' = [acc EXCEPT ![t].new = built'[GlobalOf(acc[t].fn)], ![t].pc = "assign"]
    /\ UNCHANGED <<globals, valvars, runvars, fnvars, pipevars>>

\* "env_manager = ...": the global is written
AssignGlobal(t) ==
    /\ acc[t].pc = "assign"
    /\ globals' = [globals EXCEPT ![GlobalOf(acc[t].fn)] = acc[t].new]
    /\ acc' = [acc EXCEPT ![t].pc = "return"]
    /\ UNCHANGED <<built, valvars, runvars, fnvars, pipevars>>

\* "return env_manager": the global is read again; the caller keeps the
\* object (self.env_manager, self.db)
ReturnGlobal(t) ==
    /\ acc[t].pc = "return"
    /\ acc' = [acc EXCEPT ![t].got[GlobalOf(acc[t].fn)] = globals[GlobalOf(acc[t].fn)],
                          ![t].new = 0, ![t].fn = "", ![t].pc = "idle"]
    /\ UNCHANGED <<globals, built, valvars, runvars, fnvars, pipevars>>

AccessNext ==
    \E t \in Threads :
        \/ CallAccessor(t)
        \/ TestNone(t)
        \/ Construct(t)
        \/ AssignGlobal(t)
        \/ ReturnGlobal(t)

SpecAccess == AccessInit /\ [][AccessNext]_vars

\* ---------------------------------------------------------- properties
Returned(t) == pc[t] = "returned" /\ op[t] = "execute_tool"
Running(t) == op[t] = "execute_tool"
StepSet(t) == {hist[t].steps[i] : i \in 1..Len(hist[t].steps)}
CleanedUp(t, root) == \E i \in 1..Len(hist[t].cleanups) : hist[t].cleanups[i] = root
Registered(root) == \E i \in 1..Len(active) : active[i] = root
ErrorWith(t, template) == resp[t].status = "error" /\ resp[t].message[1] = template
IsPrefix(a, b) == Len(a) <= Len(b) /\ \A i \in 1..Len(a) : a[i] = b[i]
StepOrder == <<"lookup", "validate", "create", "scaffold", "download", "extract", "install", "launch">>
StepOrderNoDeps == <<"lookup", "validate", "create", "scaffold", "download", "extract", "launch">>

\* C1: whenever create_isolated_environment returned a sandbox to a call of
\* execute_tool, cleanup_environment has been called on that sandbox's root
\* by the time the call returns, whichever way it returns (success, a gated
\* error of scaffold, download, install or launch, or a caught exception).
C1_CleanupOnEveryExit ==
    \A t \in Threads :
        (Returned(t) /\ loc[t].env_info # NoEnv) => CleanedUp(t, loc[t].env_info)

\* a call that had a sandbox returns through the exception handler
C1_Witness ==
    \E t \in Threads :
        /\ Returned(t) /\ loc[t].env_info # NoEnv
        /\ ErrorWith(t, "Critical execution error: {str(e)}")
        /\ CleanedUp(t, loc[t].env_info)

\* C2 (as the specification states it): after execute_tool returns, the
\* directory the call created is gone from the disk or is registered for
\* deletion at process exit.
C2_GoneOrDeferred ==
    \A t \in Threads :
        (Returned(t) /\ loc[t].temp_base_dir # NoEnv)
            => (loc[t].temp_base_dir \notin disk \/ loc[t].temp_base_dir \in atexit)

\* C3: the steps of one call begin in the fixed order lookup, validate,
\* create, scaffold, download, extract, install, launch (install only for a
\* non-empty dependency list), each only after every earlier one succeeded;
\* the tool is launched only after validation passed, a sandbox was made,
\* scaffold and download succeeded and the install did not fail totally.
C3_StepsInOrder ==
    \A t \in Threads :
        Running(t) =>
            /\ \/ IsPrefix(hist[t].steps, StepOrder)
               \/ IsPrefix(hist[t].steps, StepOrderNoDeps) /\ loc[t].dependencies = <<>>
            /\ \A i \in 1..(Len(hist[t].steps) - 1) : hist[t].steps[i] \in hist[t].ok
            /\ "launch" \in StepSet(t) =>
                  /\ loc[t].validation_result.valid
                  /\ loc[t].env_info # NoEnv
                  /\ {"validate", "create", "scaffold", "download"} \subseteq hist[t].ok
                  /\ loc[t].dependencies # <<>> => loc[t].install_results.installed # <<>>

\* a call ran all eight steps
C3_Witness ==
    \E t \in Threads : Returned(t) /\ hist[t].steps = StepOrder /\ resp[t].status = "success"

\* the verdict of _install_dependencies is in, for a non-empty list
Installed(t) == Running(t) /\ loc[t].dependencies # <<>> /\ loc[t].install_results.message # ""
AllFailed(t) == Installed(t) /\ loc[t].install_results.installed = <<>>
SomeFailed(t) ==
    Installed(t) /\ loc[t].install_results.installed # <<>> /\ loc[t].install_results.failed # <<>>

\* what C4 says of the verdict, of a total failure up to the sandbox, and of
\* a partial failure
InstallSemantics(t) ==
    /\ Installed(t) => (loc[t].install_results.success <=> loc[t].install_results.installed # <<>>)
    /\ AllFailed(t) =>
          /\ "launch" \notin StepSet(t)
          /\ ErrorWith(t, "Dependency installation failed: {message}")
          /\ resp[t].message[2] = "All dependency installations failed"
    /\ (SomeFailed(t) /\ Returned(t)) => "launch" \in StepSet(t)

\* C4 (as the specification states it): success iff a package installed;
\* a total failure gives the install error, no launch, and the sandbox is
\* removed; a partial failure goes on to launch.
C4_AllFailRemovesSandbox ==
    \A t \in Threads :
        /\ InstallSemantics(t)
        /\ (AllFailed(t) /\ Returned(t)) => loc[t].env_info \notin disk

\* C4 (amended): as above, but of the sandbox only this much holds: before
\* the call returns cleanup_environment is called on its root, and the
\* directory is gone if one of that call's removal attempts succeeded.
C4_AllFailCleansUp ==
    \A t \in Threads :
        /\ InstallSemantics(t)
        /\ (AllFailed(t) /\ Returned(t)) =>
              /\ CleanedUp(t, loc[t].env_info)
              /\ hist[t].removed => loc[t].env_info \notin disk

\* every package failed, and the three removal attempts failed as well
C4_Witness ==
    \E t \in Threads :
        /\ AllFailed(t) /\ Returned(t)
        /\ Len(loc[t].install_results.failed) = MaxDeps
        /\ loc[t].env_info \in disk /\ loc[t].env_info \in atexit

\* C5: when validate_input answers valid = false, execute_tool returns the
\* error envelope "Input validation failed" whose details carry the
\* validator's error list, and the call creates no sandbox and runs no
\* download, install or launch.
C5_InvalidInputStops ==
    \A t \in Threads :
        (Running(t) /\ hist[t].validated /\ ~loc[t].validation_result.valid) =>
            /\ loc[t].temp_base_dir = NoEnv
            /\ StepSet(t) \cap {"create", "scaffold", "download", "extract", "install", "launch"} = {}
            /\ Returned(t) =>
                  /\ ErrorWith(t, "Input validation failed: {errors}")
                  /\ resp[t].message[2] = loc[t].validation_result.errors
                  /\ resp[t].details = <<"validation_errors", loc[t].validation_result.errors>>

\* a call returned after the validator rejected its input
C5_Witness ==
    \E t \in Threads :
        /\ Returned(t) /\ hist[t].validated /\ ~loc[t].validation_result.valid
        /\ loc[t].validation_result.errors # <<>>

\* C6: when the lookup gives no descriptor, execute_tool returns an error
\* whose message is the "not found" message, and the call neither validates
\* the input nor creates a sandbox.
C6_UnknownToolStops ==
    \A t \in Threads :
        (Running(t) /\ hist[t].lookup \in {"absent", "store_error"}) =>
            /\ ~hist[t].validated
            /\ loc[t].temp_base_dir = NoEnv
            /\ hist[t].steps = <<"lookup">>
            /\ Returned(t) => ErrorWith(t, "Tool '{tool_name}' not found in database")

\* a call returned after the lookup found nothing
C6_Witness ==
    \E t \in Threads : Returned(t) /\ hist[t].lookup = "absent" /\ resp[t].status = "error"

\* C7 (as the specification states it): in every state each sandbox
\* directory on the disk has an entry in active_environments or is
\* registered for deletion at process exit.
C7_TrackedOrDeferred ==
    \A root \in disk : Registered(root) \/ root \in atexit

\* C10 (as the specification states it): no call of the manager aborts
\* because another call changed active_environments between its check and
\* its update.
C10_NoCallAborts ==
    \A t \in Threads : ~hist[t].keyerror

CreateRaised(t) ==
    /\ hist[t].create_failed \in {"venv", "verify"}
    /\ pc[t] \in {"create_raise", "finally", "returned"}

\* C12 (as the specification states it): when the venv creation or a
\* --version check fails, create raises, the partial directory is destroyed
\* and its root is not in active_environments.
C12_PartialSandboxDestroyed ==
    \A t \in Threads :
        CreateRaised(t) =>
            /\ loc[t].env_info = NoEnv
            /\ ~Registered(loc[t].temp_base_dir)
            /\ loc[t].temp_base_dir \notin disk

\* C12 (amended): create raises and the root is not in active_environments;
\* the partial directory is gone when a removal attempt of the handler's
\* cleanup succeeded, and is registered for deletion at exit otherwise.
C12_PartialSandboxCleanedUp ==
    \A t \in Threads :
        CreateRaised(t) =>
            /\ loc[t].env_info = NoEnv
            /\ ~Registered(loc[t].temp_base_dir)
            /\ IF hist[t].removed THEN loc[t].temp_base_dir \notin disk
                ELSE loc[t].temp_base_dir \in atexit
            /\ pc[t] \in {"finally", "returned"} => ErrorWith(t, "Critical execution error: {str(e)}")
            /\ "scaffold" \notin StepSet(t)

\* a --version check failed and the handler's cleanup removed the directory
C12_Witness ==
    \E t \in Threads :
        /\ CreateRaised(t) /\ hist[t].create_failed = "verify"
        /\ hist[t].removed /\ pc[t] = "returned"

Range(xs) == {xs[i] : i \in 1..Len(xs)}
NoRepeat(xs) == \A i, j \in 1..Len(xs) : xs[i] = xs[j] => i = j

\* C13: in one call of execute_tool no step begins twice; the packages
\* handed to pip so far are the first packages of the dependency list, each
\* once and in list order, whatever the outcome of the earlier ones; once
\* _install_dependencies has its verdict every package was handed over, and
\* the installed and failed lists are disjoint and together hold exactly the
\* packages of the list.
C13_NothingRetried ==
    \A t \in Threads :
        Running(t) =>
            /\ NoRepeat(hist[t].steps)
            /\ IsPrefix(hist[t].pip, loc[t].dependencies)
            /\ Len(hist[t].pip) =
                  Len(loc[t].install_results.installed) + Len(loc[t].install_results.failed)
            /\ Installed(t) =>
                  /\ hist[t].pip = loc[t].dependencies
                  /\ Range(loc[t].install_results.installed) \cap Range(loc[t].install_results.failed) = {}
                  /\ Range(loc[t].install_results.installed) \cup Range(loc[t].install_results.failed)
                        = Range(loc[t].dependencies)
                  /\ NoRepeat(loc[t].install_results.installed \o loc[t].install_results.failed)

\* the first package failed, the next one was installed all the same
C13_Witness ==
    \E t \in Threads :
        /\ Returned(t) /\ Installed(t)
        /\ Len(loc[t].dependencies) = MaxDeps
        /\ loc[t].install_results.failed = <<loc[t].dependencies[1]>>
        /\ loc[t].dependencies[2] \in Range(loc[t].install_results.installed)

\* --------------------------------------- properties of the validator
\* the declared type of a schema node, as a value of that type looks
HasType(v, ty) ==
    CASE ty = VSym("integer") -> v[1] = "int"
      [] ty = VSym("number") -> v[1] \in {"int", "float"}
      [] ty = VSym("string") -> v[1] = "str"
      [] ty = VSym("boolean") -> v[1] = "bool"
      [] ty = VSym("array") -> v[1] = "list"
      [] ty = VSym("object") -> v[1] = "dict"
      [] OTHER -> TRUE

\* a value against the constraints of its schema node
Satisfies(v, node) ==
    /\ (Has(node, "type") /\ ~IsList(Get(node, "type"))) => HasType(v, Get(node, "type"))
    /\ (Has(node, "minimum") /\ IsNumber(v)) => ~NumLess(v, Get(node, "minimum"))
    /\ (Has(node, "maximum") /\ IsNumber(v)) => ~NumLess(Get(node, "maximum"), v)
    /\ (Has(node, "minLength") /\ v[1] = "str") => Len(v[2]) >= Get(node, "minLength")[2]
    /\ (Has(node, "maxLength") /\ v[1] = "str") => Len(v[2]) <= Get(node, "maxLength")[2]
    /\ Has(node, "enum") => InList(v, Get(node, "enum")[2])
    /\ (Has(node, "pattern") /\ v[1] = "str") => _re_match(Get(node, "pattern")[2], v[2])
    /\ (Has(node, "minItems") /\ IsList(v)) => Len(v[2]) >= Get(node, "minItems")[2]
    /\ (Has(node, "maxItems") /\ IsList(v)) => Len(v[2]) <= Get(node, "maxItems")[2]

\* the schemas whose returned data has the shape of the schema itself
Plain(schema) == ~IsWrapper(PropertiesOf(schema))

\* C8 (as the specification states it): when validate_input answers
\* valid = true, every required field of the schema is in the returned data
\* and every returned value that has a schema node has the node's type and
\* satisfies the node's constraints.
C8_ValidMeansConforming ==
    (vdone /\ vout.valid /\ Plain(Schemas[vschema])) =>
        /\ \A i \in 1..Len(RequiredOf(Schemas[vschema])[2]) :
              Has(vout.data, RequiredOf(Schemas[vschema])[2][i][2])
        /\ \A i \in 1..Len(vout.data[2]) :
              Has(PropertiesOf(Schemas[vschema]), vout.data[2][i][1]) =>
                  Satisfies(vout.data[2][i][2], Get(PropertiesOf(Schemas[vschema]), vout.data[2][i][1]))

\* C9 (as the specification states it): when validate_input answers
\* valid = false, no field of the returned data holds a converted value,
\* that is a value other than the one the caller sent for that field.
C9_NoConvertedDataOnFailure ==
    (vdone /\ ~vout.valid) =>
        \A i \in 1..Len(vout.data[2]) :
            Has(vdoc, vout.data[2][i][1]) => Get(vdoc, vout.data[2][i][1]) = vout.data[2][i][2]

\* the declared properties of the schema that have a default and are absent
\* from the caller's document
MissingDefaults ==
    {i \in 1..Len(PropertiesOf(Schemas[vschema])[2]) :
        /\ IsDict(PropertiesOf(Schemas[vschema])[2][i][2])
        /\ Has(PropertiesOf(Schemas[vschema])[2][i][2], "default")
        /\ ~Has(vdoc, PropertiesOf(Schemas[vschema])[2][i][1])}

\* the document holds no declared field (it is empty or has undeclared fields only)
OnlyUndeclared ==
    \A i \in 1..Len(vdoc[2]) : ~Has(PropertiesOf(Schemas[vschema]), vdoc[2][i][1])

\* C14 (as the specification states it): every declared property that is
\* absent from the document and has a default is in the returned data with
\* its default, with one default-applied warning for each, whatever the
\* document; a document without declared fields, against a schema that
\* requires nothing, is valid.
C14_DefaultsApplied ==
    (vdone /\ Plain(Schemas[vschema])) =>
        /\ \A i \in MissingDefaults :
              /\ Has(vout.data, PropertiesOf(Schemas[vschema])[2][i][1])
              /\ Get(vout.data, PropertiesOf(Schemas[vschema])[2][i][1])
                    = Get(PropertiesOf(Schemas[vschema])[2][i][2], "default")
        /\ Cardinality({j \in 1..Len(vout.warnings) :
                          vout.warnings[j][1] = "Applied default value for '{field_path}': {default_value}"})
              = Cardinality(MissingDefaults)
        /\ (OnlyUndeclared /\ RequiredOf(Schemas[vschema])[2] = <<>>) => vout.valid

\* the node of field "a" when its type is a union, and the union's types
UnionNode == Get(PropertiesOf(Schemas[vschema]), "a")
HasUnion ==
    /\ Plain(Schemas[vschema])
    /\ Has(PropertiesOf(Schemas[vschema]), "a")
    /\ IsList(TypeOf(UnionNode))
    /\ Has(vdoc, "a")
UnionTypes == TypeOf(UnionNode)[2]

\* the value converts to the type and the converted value passes the constraints
BranchPasses(conv, node) ==
    ~Raised(conv) /\ _validate_constraints("a", conv[2], node, FieldResult(conv[2])).valid
BranchOk(i) == BranchPasses(_convert_type(Get(vdoc, "a"), UnionTypes[i]), UnionNode)

\* the first type of the declaration that takes the value, 0 when none does
Winner ==
    IF \E i \in 1..Len(UnionTypes) : BranchOk(i)
    THEN CHOOSE i \in 1..Len(UnionTypes) : BranchOk(i) /\ \A j \in 1..(i - 1) : ~BranchOk(j)
    ELSE 0

\* C15: for a field whose type is a union the first declared type to which
\* the value converts with all constraints passing gives the returned
\* value, with a warning naming that type; when no type takes the value the
\* field fails with exactly one error, which lists one failure per type.
C15_FirstUnionBranchWins ==
    (vdone /\ HasUnion) =>
        IF Winner = 0
        THEN /\ ~vout.valid
             /\ Len(vout.errors) = 1
             /\ vout.errors[1][1] = "Field '{field_name}': Value '{value}' doesn't match any allowed types {field_type}. Errors: {conversion_errors}"
             /\ Len(vout.errors[1][3]) = Len(UnionTypes)
        ELSE /\ vout.valid
             /\ vout.errors = <<>>
             /\ Get(vout.data, "a") = _convert_type(Get(vdoc, "a"), UnionTypes[Winner])[2]
             /\ \E j \in 1..Len(vout.warnings) :
                   vout.warnings[j] = <<"Field '{field_name}' validated as {union_type}", "a",
                                        UnionTypes[Winner][2]>>

\* type [integer, string] with a text that is no integer: the string branch
C15_Witness ==
    /\ vdone /\ HasUnion
    /\ Get(vdoc, "a") = VStr(<<"E">>)
    /\ Winner = 2 /\ vout.valid /\ Get(vout.data, "a") = VStr(<<"E">>)

\* the schema a wrapper schema wraps: the properties under its single key,
\* with the required list of the wrapper schema
InnerSchema(S) ==
    VDict(<<KV("properties", WrapperValue(PropertiesOf(S))),
            KV("required", GetOr(S, "required", VList(<<>>)))>>)

\* the document is {k: x} for the key k of the wrapper schema
IsWrapped ==
    /\ IsWrapper(PropertiesOf(Schemas[vschema]))
    /\ Len(vdoc[2]) = 1
    /\ Has(vdoc, WrapperKey(PropertiesOf(Schemas[vschema])))

\* wrapped answers like inner, with the data under the key k on success
WrapOf(wrapped, inner, k) ==
    /\ wrapped.valid = inner.valid
    /\ wrapped.errors = inner.errors
    /\ wrapped.warnings = inner.warnings
    /\ wrapped.valid => wrapped.data = OneField(k, inner.data)

\* C16: for a wrapper schema S with key k and a document {k: x},
\* validate_input({k: x}, S) has the valid flag, the errors and the warnings
\* of validating x against the inner schema, and on success its data is
\* {k: d} for the data d of that validation.
C16_WrapperRoundTrip ==
    (vdone /\ IsWrapped) =>
        WrapOf(vout,
               validate_input(Get(vdoc, WrapperKey(PropertiesOf(Schemas[vschema]))),
                              InnerSchema(Schemas[vschema])),
               WrapperKey(PropertiesOf(Schemas[vschema])))

\* a wrapped document that is valid, with a default filled in under the key
C16_Witness ==
    /\ vdone /\ IsWrapped /\ vout.valid
    /\ Has(Get(vout.data, WrapperKey(PropertiesOf(Schemas[vschema]))), "b")
    /\ ~Has(Get(vdoc, WrapperKey(PropertiesOf(Schemas[vschema]))), "b")

\* the launch ran the script to its end
Completed == lpc = "done" /\ lproc # NoProc

\* C17: for a tool whose run_sync returns its single argument, the result
\* of a successful launch equals the validated input of the launch; every
\* launch whose script ran to its end is successful.  Embedding the input
\* in the script, printing the result and reading it from stdout loses
\* nothing, for strings with quotes, backslashes, line feeds and letters
\* outside ASCII too.
C17_EchoRoundTrip ==
    ltool = "echo" =>
        /\ (lpc = "done" /\ lout.status = "success") => lout.result = linput
        /\ Completed => lout.status = "success"

\* a successful launch of a string with a quote, a backslash or a line
\* feed next to a letter outside ASCII
C17_Witness ==
    /\ Completed /\ lout.status = "success" /\ ltool = "echo"
    /\ Has(linput, "a") /\ IsStr(Get(linput, "a"))
    /\ Len(Get(linput, "a")[2]) = 2
    /\ Get(linput, "a")[2][1] \in {"\"", "\\", "\n"}
    /\ Get(linput, "a")[2][2] = "é"

\* the required fields of the drawn schema that the validated data lacks
MissingRequired ==
    {RequiredOf(_normalize_schema(Schemas[vschema]))[2][i][2] :
        i \in {j \in 1..Len(RequiredOf(_normalize_schema(Schemas[vschema]))[2]) :
                 ~Has(ValidationData(vdoc, WrapperKeyOf(_normalize_schema(Schemas[vschema]))),
                      RequiredOf(_normalize_schema(Schemas[vschema]))[2][j][2])}}
\* the validated data is a dict, so that the required fields are looked up
DataIsDict == IsDict(ValidationData(vdoc, WrapperKeyOf(_normalize_schema(Schemas[vschema]))))

\* C18: for every key listed in required and absent from the document,
\* validation fails with one error "Missing required field: f" that names
\* the top-level field f.
C18_MissingRequiredNamed ==
    (vdone /\ DataIsDict) =>
        \A f \in MissingRequired :
            /\ ~vout.valid
            /\ Cardinality({i \in 1..Len(vout.errors) :
                               vout.errors[i] = <<"Missing required field: {field}", f>>}) = 1

\* the validated document and the properties it is validated against
ValidatedDoc == ValidationData(vdoc, WrapperKeyOf(_normalize_schema(Schemas[vschema])))
ValidatedProps == PropertiesOf(_normalize_schema(Schemas[vschema]))
\* the integer and number fields that the document gives as the text of an
\* integer: digits, with or without a sign in front
IsIntText(cs) == IsDigitStr(Unsigned(cs))
IntOfText(cs) == VInt(Signed(IsNeg(cs), DigitsVal(Unsigned(cs))))
NumericTexts ==
    {k \in Range(Keys(ValidatedProps)) :
        /\ TypeOf(Get(ValidatedProps, k)) \in {VSym("integer"), VSym("number")}
        /\ Has(ValidatedDoc, k)
        /\ IsStr(Get(ValidatedDoc, k))
        /\ IsIntText(Get(ValidatedDoc, k)[2])}
\* validation failed with the message of the bound
Rejected(message) == ~vout.valid /\ message \in Range(vout.errors)
AboveMaximum(k, node, n) == Has(node, "maximum") /\ NumLess(Get(node, "maximum"), n)
BelowMinimum(k, node, n) == Has(node, "minimum") /\ NumLess(n, Get(node, "minimum"))
BoundsChecked(k, node, n) ==
    /\ AboveMaximum(k, node, n) =>
           Rejected(<<"Field '{field_name}' must be <= {maximum}", k, Get(node, "maximum")>>)
    /\ BelowMinimum(k, node, n) =>
           Rejected(<<"Field '{field_name}' must be >= {minimum}", k, Get(node, "minimum")>>)

\* C19: minimum and maximum of an integer or number field are checked
\* against the coerced value: a text that reads as a number above the
\* maximum is rejected with "must be <= maximum", one below the minimum
\* with "must be >= minimum".
C19_BoundsOnCoercedValue ==
    (vdone /\ IsDict(ValidatedDoc)) =>
        \A k \in NumericTexts :
            BoundsChecked(k, Get(ValidatedProps, k), IntOfText(Get(ValidatedDoc, k)[2]))

\* the text "10" for an integer field of maximum 1 is rejected
C19_Witness ==
    /\ vdone /\ vschema = 1 /\ vdoc = OneField("a", VStr(<<"1", "0">>))
    /\ Rejected(<<"Field '{field_name}' must be <= {maximum}", "a", VInt(1)>>)

\* the warnings of a success envelope
EnvelopeWarnings(t) == resp[t].execution_info.validation_warnings
\* an entry of the warnings that is the message of the installation, the
\* one text of the code that lists the packages that failed
ListsFailed(t, w) == w[1] = loc[t].install_results.message

\* C20: when some but not all requested packages failed to install and the
\* tool then ran, the success envelope carries a warning that lists the
\* failed packages.
C20_PartialFailureWarned ==
    \A t \in Threads :
        (Returned(t) /\ resp[t].status = "success" /\ SomeFailed(t)) =>
            \E i \in 1..Len(EnvelopeWarnings(t)) : ListsFailed(t, EnvelopeWarnings(t)[i])

\* C21: in a success envelope, execution_info.dependencies_installed lists
\* the packages that were installed in the sandbox: it contains no package
\* whose install failed.
C21_InstalledListIsInstalled ==
    \A t \in Threads :
        (Returned(t) /\ resp[t].status = "success") =>
            Range(resp[t].execution_info.dependencies_installed)
                \cap Range(loc[t].install_results.failed) = {}

\* a document that can trigger warnings only: it holds no declared field,
\* so that its fields are passed through and the defaults are applied, and
\* the schema requires nothing
WarningsOnly ==
    /\ Plain(Schemas[vschema])
    /\ OnlyUndeclared
    /\ RequiredOf(Schemas[vschema])[2] = <<>>

\* C22: warnings are never promoted to errors: validate_input answers
\* valid = false exactly when its errors list is non-empty, and a document
\* that triggers warnings only (unknown field passed through, default
\* applied) is valid, with no error.
C22_WarningsNeverErrors ==
    vdone =>
        /\ ~vout.valid <=> vout.errors # <<>>
        /\ WarningsOnly => (vout.valid /\ vout.errors = <<>>)

\* the returned list of the dependency parser
Parsed == fdone /\ fn = "_parse_dependencies"
\* ^[A-Za-z0-9][A-Za-z0-9._-]*$ on a text without line feeds
NamePattern(cs) ==
    /\ Len(cs) >= 1
    /\ \A i \in 1..Len(cs) :
          cs[i] \in (IF i = 1 THEN AlNum ELSE AlNum \cup {".", "_", "-"})

\* C23: for any raw dependencies value the list that _parse_dependencies
\* returns is strictly ascending in lexicographic order, hence free of
\* duplicates, and every element matches ^[A-Za-z0-9][A-Za-z0-9._-]*$.
C23_SortedCleanNames ==
    Parsed =>
        /\ \A i \in 1..(Len(fret) - 1) : StrLess(fret[i], fret[i + 1])
        /\ NoRepeat(fret)
        /\ \A i \in 1..Len(fret) : NamePattern(fret[i])

\* a list of two packages, declared with the greater one first
C23_Witness ==
    /\ Parsed /\ IsList(farg)
    /\ farg[2] = <<VStr(<<"p", "a", "n", "d", "a", "s">>), VStr(<<"n", "u", "m", "p", "y">>)>>
    /\ fret = <<<<"n", "u", "m", "p", "y">>, <<"p", "a", "n", "d", "a", "s">>>>

\* the text declares the alias key: the key, alone or with a version
\* specifier behind it
DeclaresAlias(cs, key) ==
    /\ IsPrefix(key, cs)
    /\ Len(cs) > Len(key) => cs[Len(key) + 1] \in SpecifierChars
    /\ ~Contains(cs, "\n")

\* C24: no alias key (cv2, PIL, sklearn, yaml, dotenv) is in the returned
\* list; a declared alias key, with or without a version specifier, yields
\* its mapped package name and nothing else; cleaning a cleaned name
\* returns it unchanged.
C24_AliasMappedOnce ==
    Parsed =>
        /\ \A i \in 1..Len(fret) : fret[i] \notin AliasKeys
        /\ \A i \in 1..Len(package_mappings) :
              (IsStr(farg) /\ DeclaresAlias(farg[2], package_mappings[i][1])) =>
                  fret = <<package_mappings[i][2]>>
        /\ \A i \in 1..Len(fret) : _clean_package_name(fret[i]) = fret[i]
        /\ IsStr(farg) =>
              _clean_package_name(_clean_package_name(farg[2])) = _clean_package_name(farg[2])

\* cv2 with a version specifier yields opencv-python
C24_Witness ==
    /\ Parsed
    /\ farg = VStr(<<"c", "v", "2", ">", "=", "4", ".", "5">>)
    /\ fret = <<<<"o", "p", "e", "n", "c", "v", "-", "p", "y", "t", "h", "o", "n">>>>

\* ---------------------------------------------------------------- C25
Downloaded == fdone /\ fn = "download_tool_from_github"
\* the requested file is absent: the fetch was answered with 404
Absent == Downloaded /\ farg.connect = "ok" /\ farg.fetch = "404"
\* the names the claim describes: of the available tools, in the order of
\* the listing, those whose lower-cased name contains the lower-cased
\* requested name or is contained in it
Offered(i) ==
    LET name == RemoveDotPy(farg.all_files[i])
    IN  /\ endswith(farg.all_files[i], DotPy)
        /\ \/ HasSubstring(Lower(farg.tool_name), Lower(name))
           \/ HasSubstring(Lower(name), Lower(farg.tool_name))
OfferedNames == {RemoveDotPy(farg.all_files[i]) : i \in {j \in 1..Len(farg.all_files) : Offered(j)}}
\* C25: when the requested file is absent from the repository, the result
\* download_tool_from_github returns is an error that carries suggestions:
\* at most 5 names, each an available tool whose lower-cased name contains
\* the lower-cased requested name or is contained in it, and at least one
\* of them whenever such a tool exists
C25_AbsentOffersSuggestions ==
    Absent =>
        /\ fret.status = "error"
        /\ "suggestions" \in DOMAIN fret
        /\ Len(fret.suggestions) <= SuggestionCap
        /\ \A i \in 1..Len(fret.suggestions) : fret.suggestions[i] \in OfferedNames
        /\ OfferedNames # {} => fret.suggestions # <<>>

\* ---------------------------------------------------------------- C26
\* the lookup of the call failed because the store could not be queried
StoreFailed(t) == Returned(t) /\ hist[t].lookup = "store_error"
\* C26: when the query of the metadata store raises, execute_tool does not
\* report an unknown tool: its answer is an error other than the "not
\* found in database" error it gives for a tool the store does not hold.
C26_StoreFailureSurfaced ==
    \A t \in Threads :
        StoreFailed(t) =>
            /\ resp[t].status = "error"
            /\ ~ErrorWith(t, "Tool '{tool_name}' not found in database")

\* ---------------------------------------------------------------- C27
\* C27: every value execute_tool returns has status success or error and
\* carries tool_name; with status success it carries result and
\* execution_info, with status error it carries message and details.
C27_UniformEnvelope ==
    \A t \in Threads :
        Returned(t) =>
            /\ resp[t].status \in {"success", "error"}
            /\ "tool_name" \in DOMAIN resp[t]
            /\ resp[t].status = "success" => {"result", "execution_info"} \subseteq DOMAIN resp[t]
            /\ resp[t].status = "error" => {"message", "details"} \subseteq DOMAIN resp[t]

\* ---------------------------------------------------------------- C28
\* the script ran to its end on a tool file that cannot be run
LaunchedBroken == Completed /\ ltool \in {"no_tool_class", "init_raises", "run_sync_raises"}
\* C28: when the script finds no class that inherits from BaseTool and has
\* run_sync, or the constructor of the class raises, or run_sync raises, the
\* launch returns status error with the diagnostic as its message, and never
\* status success; execute_tool builds its error envelope from that status.
C28_BrokenToolFails ==
    LaunchedBroken =>
        /\ lout.status = "error"
        /\ lout.status # "success"

\* ---------------------------------------------------------------- C29
InCleanup(t) == pc[t] \in {"cl_exists", "cl_check", "cl_del", "cl_rmtree"}
\* the thread is in the retry loop of cleanup_environment
InRetryLoop(t) == pc[t] = "cl_rmtree"
\* the step is one of thread t
Moved(t) == pc'[t] # pc[t] \/ cl'[t] # cl[t]
\* a step of the retry loop that stays in the loop is a failed attempt
\* before the third: nothing is removed, nothing is registered
FailedAttempt(t) ==
    /\ cl'[t].attempt = cl[t].attempt + 1
    /\ cl'[t].attempt < max_attempts
    /\ disk' = disk /\ atexit' = atexit
\* a step that leaves the loop is the first removal that succeeded, or the
\* third failure, which registers the root with atexit
LoopLeft(t) ==
    \/ cl[t].dir \notin disk' /\ atexit' = atexit
    \/ cl[t].attempt = max_attempts - 1 /\ disk' = disk /\ atexit' = atexit \cup {cl[t].dir}
RetryStep(t) ==
    (InRetryLoop(t) /\ Moved(t)) =>
        IF pc'[t] = "cl_rmtree" THEN FailedAttempt(t) ELSE LoopLeft(t)
\* a root is registered with atexit only by a third failed attempt on it
RegisteredLast ==
    \A root \in Names :
        (root \in atexit' /\ root \notin atexit) =>
            \E t \in Threads : InRetryLoop(t) /\ cl[t].dir = root /\ cl[t].attempt = max_attempts - 1
\* C29: cleanup_environment removes the root from active_environments
\* before it attempts the removal of the directory; it attempts the removal
\* at most three times, a failed attempt before the third leads to the next
\* attempt, the first success ends the loop, and the root is registered for
\* deletion at exit only by the third failure; every call returns.
C29_DestroyProtocol ==
    /\ [](\A t \in Threads : InRetryLoop(t) => (~Registered(cl[t].dir) /\ cl[t].attempt < max_attempts))
    /\ [][(\A t \in Threads : RetryStep(t)) /\ RegisteredLast]_vars
    /\ \A t \in Threads : InCleanup(t) ~> ~InCleanup(t)

\* a call of cleanup_environment returned after three failed attempts: the
\* directory is still there, unregistered and due for deletion at exit
C29_Witness ==
    \E t \in Threads :
        /\ op[t] = "cleanup_environment" /\ pc[t] = "returned"
        /\ loc[t].temp_base_dir \in disk
        /\ loc[t].temp_base_dir \in atexit
        /\ ~Registered(loc[t].temp_base_dir)
        /\ ~hist[t].keyerror

\* ---------------------------------------------------------------- C30
\* the child ended with exit code 0 and its output was read
OutputRead == fdone /\ fn = "_execute_tool_in_environment" /\ farg.returncode = 0
\* the lines of the output, and those whose trimmed text starts with "{"
\* and parses
StdoutLines == SplitLines(farg.stdout)
JsonLines ==
    {i \in 1..Len(StdoutLines) :
        /\ At(Strip(StdoutLines[i]), 1) = "{"
        /\ ~Raised(json_loads(Strip(StdoutLines[i])))}
LastJson == CHOOSE i \in JsonLines : \A j \in JsonLines : j <= i
WholeJson == json_loads(Strip(farg.stdout))
\* C30: the result extracted from the stdout of the child is the JSON value
\* of the last line whose trimmed text starts with "{" and parses; without
\* such a line it is the JSON value of the whole trimmed stdout; when that
\* does not parse either, the launch returns an error that carries stdout
\* and stderr.
C30_LastJsonLine ==
    OutputRead =>
        IF JsonLines # {}
        THEN fret.status = "success" /\ fret.result = json_loads(Strip(StdoutLines[LastJson]))[2]
        ELSE IF ~Raised(WholeJson)
        THEN fret.status = "success" /\ fret.result = WholeJson[2]
        ELSE /\ fret.status = "error"
             /\ fret.stdout = farg.stdout
             /\ fret.stderr = farg.stderr

\* two lines that parse, the second between blanks, and a line of text
\* after them
C30_Witness ==
    /\ OutputRead
    /\ farg.stdout = <<"{", "\"", "a", "\"", ":", " ", "1", "}", "\n", " ", "{", "\"", "b", "\"", ":", " ", "2", "}", " ", "\n", "D", "E", "B", "U", "G", ":", " ", "x", "\n">>
    /\ fret.status = "success"
    /\ fret.result = OneField("b", VInt(2))

\* ---------------------------------------------------------------- C31
\* a call of cleanup_environment(root) returned
CleanupReturned(t) == op[t] = "cleanup_environment" /\ pc[t] = "returned"
\* a call of cleanup_all_environments returned
CleanupAllReturned(t) == op[t] = "cleanup_all_environments" /\ pc[t] = "returned"
\* C31: after cleanup_environment(root) returned, root is no key of
\* active_environments, whether its directory exists or not; and after
\* cleanup_all_environments returned, with no create beside it,
\* active_environments is empty.
C31_CleanupUnregisters ==
    \A t \in Threads :
        /\ CleanupReturned(t) => ~Registered(loc[t].temp_base_dir)
        /\ CleanupAllReturned(t) => active = <<>>

\* ---------------------------------------------------------------- C32
\* the array fields that the document gives as a list
ArrayLists ==
    {k \in Range(Keys(ValidatedProps)) :
        /\ TypeOf(Get(ValidatedProps, k)) = VSym("array")
        /\ Has(ValidatedDoc, k)
        /\ IsList(Get(ValidatedDoc, k))}
TooFewItems(node, list) == Has(node, "minItems") /\ Len(list[2]) < Get(node, "minItems")[2]
TooManyItems(node, list) == Has(node, "maxItems") /\ Len(list[2]) > Get(node, "maxItems")[2]
LengthChecked(k, node, list) ==
    /\ TooFewItems(node, list) =>
           Rejected(<<"Field '{field_name}' must have at least {minItems} items", k>>)
    /\ TooManyItems(node, list) =>
           Rejected(<<"Field '{field_name}' must have at most {maxItems} items", k>>)
\* C32: for an array field given as a list, a length below minItems or
\* above maxItems makes the validation fail with the error of that field.
C32_ArrayLengthChecked ==
    (vdone /\ IsDict(ValidatedDoc)) =>
        \A k \in ArrayLists : LengthChecked(k, Get(ValidatedProps, k), Get(ValidatedDoc, k))

\* ---------------------------------------------------------------- C33
\* a statement of the call raised: a step of the try body, or the del
\* inside cleanup_environment
RaisedInside(t) ==
    \/ ErrorWith(t, "Critical execution error: {str(e)}")
    \/ hist[t].keyerror
\* C33: execute_tool does not raise to its caller: every call that ended,
\* also one in which a step or the cleanup raised, ended by returning an
\* envelope with a status of success or error.
C33_NeverRaises ==
    \A t \in Threads :
        (op[t] = "execute_tool" /\ pc[t] = "returned") =>
            /\ "status" \in DOMAIN resp[t]
            /\ resp[t].status \in {"success", "error"}
            /\ RaisedInside(t) => "message" \in DOMAIN resp[t]

\* a call in which a step raised and then the del of cleanup_environment
\* raised KeyError returned the envelope of the critical error
C33_Witness ==
    \E t \in Threads :
        /\ Returned(t)
        /\ hist[t].keyerror
        /\ ErrorWith(t, "Critical execution error: {str(e)}")
\* ---------------------------------------------------------------- C34
IntConverted == fn = "_convert_to_integer" /\ fdone
IntAccepted == fret[1] = "ok"
\* a base-10 integer literal with an optional leading '-'
IntLiteral(cs) == IsDigitStr(cs) \/ (cs # <<>> /\ Head(cs) = "-" /\ IsDigitStr(Tail(cs)))
IntLiteralVal(cs) == IF Head(cs) = "-" THEN 0 - DigitsVal(Tail(cs)) ELSE DigitsVal(cs)
\* n is the float m / 10^s with its fraction cut off
TruncatedTowardZero(n, m, s) ==
    IF m >= 0
    THEN n * Pow10(s) <= m /\ m < (n + 1) * Pow10(s)
    ELSE (n - 1) * Pow10(s) < m /\ m <= n * Pow10(s)
IntegerUnchanged == farg[1] \in {"int", "bool"} => fret = <<"ok", farg>>
FloatTruncated ==
    farg[1] = "float" =>
        /\ IntAccepted
        /\ fret[2][1] = "int"
        /\ TruncatedTowardZero(fret[2][2], farg[2], farg[3])

\* C34 as stated: coercion to integer accepts a string iff the string is a
\* base-10 integer literal with an optional leading '-', and returns its
\* value; every other string is rejected with an error; an integer passes
\* unchanged and a float is truncated toward zero
C34_LiteralOnly ==
    IntConverted =>
        /\ farg[1] = "str" =>
               IF IntLiteral(farg[2])
               THEN fret = <<"ok", VInt(IntLiteralVal(farg[2]))>>
               ELSE fret[1] = "err"
        /\ IntegerUnchanged
        /\ FloatTruncated

\* C34 amended: coercion to integer accepts a string iff the string without
\* its surrounding whitespace is a base-10 integer literal with an optional
\* leading '-', and returns its value; every other string is rejected with
\* an error; an integer passes unchanged and a float is truncated toward
\* zero
C34_StrippedLiteral ==
    IntConverted =>
        /\ farg[1] = "str" =>
               IF IntLiteral(Strip(farg[2]))
               THEN fret = <<"ok", VInt(IntLiteralVal(Strip(farg[2])))>>
               ELSE fret[1] = "err"
        /\ IntegerUnchanged
        /\ FloatTruncated

\* the text " -1" was converted to -1
C34_Witness ==
    /\ IntConverted
    /\ farg = VStr(<<" ", "-", "1">>)
    /\ fret = <<"ok", VInt(0 - 1)>>

\* ---------------------------------------------------------------- C35
\* the child ran to its end with exit code 0 and its output was read
LaunchRead == lpc = "done" /\ lproc # NoProc /\ lproc.returncode = 0
\* the last line of the child's stdout, as JSON: the launcher's last print
LastPrinted == SplitLines(Strip(lproc.stdout))[Len(SplitLines(Strip(lproc.stdout)))]
LastDocument == json_loads(Strip(LastPrinted))

\* C35: the result of a launch that ran to its end is the JSON document the
\* launcher printed last, the serialized return value of run_sync, whatever
\* its JSON type and whatever was written to stdout before it
C35_ResultIsLastDocument ==
    LaunchRead =>
        /\ lout.status = "success"
        /\ ~Raised(LastDocument)
        /\ lout.result = LastDocument[2]

\* ---------------------------------------------------------------- C36
KwargsBuilt == fn = "run_sync" /\ fdone /\ Len(farg.params) > 1
KeyOfInput(p) == Has(farg.validated_input, p.name)
WholeBound(p) == ~KeyOfInput(p) /\ ~p.has_default /\ p.name \in {"input_data", "data"}
NullBound(p) == ~KeyOfInput(p) /\ ~p.has_default /\ p.name = "llm_config"
LeftOut(p) ==
    ~KeyOfInput(p) /\ ~p.has_default /\ p.name \notin {"input_data", "data", "llm_config"}
PassedOn(p) == KeyOfInput(p) \/ WholeBound(p) \/ NullBound(p)
NamesOf(params) == [i \in 1..Len(params) |-> params[i].name]
WarnedNames == [i \in 1..Len(flog) |-> flog[i][2]]

\* C36: for a run_sync of more than one parameter the keyword arguments
\* are the parameters, in declaration order, that are keys of the
\* validated input (bound to the input's value) or that have no default and
\* are named input_data or data (bound to the whole input) or llm_config
\* (bound to null); a parameter with a default that is no key is left
\* unbound; every other parameter is left out with a warning; no key of the
\* input that is no parameter is passed
C36_BoundInDeclarationOrder ==
    KwargsBuilt =>
        /\ Keys(fret) = NamesOf(SelectSeq(farg.params, PassedOn))
        /\ WarnedNames = NamesOf(SelectSeq(farg.params, LeftOut))
        /\ \A i \in 1..Len(farg.params) :
               /\ KeyOfInput(farg.params[i]) =>
                      Get(fret, farg.params[i].name) = Get(farg.validated_input, farg.params[i].name)
               /\ WholeBound(farg.params[i]) =>
                      Get(fret, farg.params[i].name) = farg.validated_input
               /\ NullBound(farg.params[i]) => Get(fret, farg.params[i].name) = PyNone
        /\ \A k \in {"a", "b", "c", "data", "input_data", "llm_config"} :
               (Has(farg.validated_input, k) /\ \A i \in 1..Len(farg.params) : farg.params[i].name # k)
                   => ~Has(fret, k)

\* run_sync(self, llm_config, input_data=7, a=1) on {"b": 2, "a": 1, "c": 3}
\* was called with llm_config = None and a = 1
C36_Witness ==
    /\ KwargsBuilt
    /\ farg.params = <<Param("llm_config", FALSE), Param("input_data", TRUE), Param("a", TRUE)>>
    /\ farg.validated_input = VDict(<<KV("b", VInt(2)), KV("a", VInt(1)), KV("c", VInt(3))>>)
    /\ fret = VDict(<<KV("llm_config", PyNone), KV("a", VInt(1))>>)
    /\ flog = <<>>

\* ---------------------------------------------------------------- C37
DependenciesExtracted == fn = "extract_dependencies_from_file" /\ fdone
\* the strings a declared item holds
StringsOfItem(item) == IF IsStr(item) THEN {item[2]} ELSE {item[2][i][2] : i \in 1..Len(item[2])}
DeclaredStrings(declared) == UNION {StringsOfItem(declared[2][i]) : i \in 1..Len(declared[2])}
Returned_names == {fret[i] : i \in 1..Len(fret)}

\* C37: for a file whose dependencies assignment is a list literal of
\* strings and pair-shaped lists or tuples of strings, the returned list
\* holds the normalized name of every declared string
C37_NoDeclaredPackageDropped ==
    DependenciesExtracted =>
        \A name \in DeclaredStrings(farg.declared) :
            _clean_package_name(name) \in Returned_names

\* ---------------------------------------------------------------- C38
\* the object thread t got from the accessor of the global g, 0 for none
Got(t, g) == acc[t].got[g]

\* C38: get_db_connector and get_env_manager construct their object at
\* most once, and every caller gets the same object, the callers of
\* concurrent first calls included: every request works on the same
\* manager and so on the same active set
C38_OneInstance ==
    \A g \in GlobalNames :
        /\ built[g] <= 1
        /\ \A t, u \in Threads : (Got(t, g) # 0 /\ Got(u, g) # 0) => Got(t, g) = Got(u, g)

====
